---- MODULE Spec2Model ----
(***************************************************************************)
(* A model of swagger2ts-codegen: the naming utilities, the configuration  *)
(* loader, the Swagger/OpenAPI parser with its reference work-list, the    *)
(* function-file merge of the update command and the field diff of the     *)
(* check command.                                                          *)
(*                                                                         *)
(* Text is modelled as a sequence of one-character strings wherever the    *)
(* code works on characters (names, paths), and as a sequence of tokens    *)
(* wherever the code works with regular expressions or indexOf on whole    *)
(* files (a word, a punctuation character, a blank, a line break or a      *)
(* sentinel marker is one token).                                          *)
(***************************************************************************)
EXTENDS Integers, Sequences, FiniteSets, TLC

VARIABLES
  pc,                 \* position of the run that the specification drives
  method,             \* HTTP verb handed to generateFunctionName
  segs,               \* the path's segments as the document author wrote them
  path,               \* raw path of the operation
  cleanPath,          \* ParsedAPI.cleanPath
  functionName,       \* ParsedAPI.functionName
  packageJson,        \* package.json as loadConfig finds it
  config,             \* the Config returned by loadConfig
  apis,               \* parseSwagger's apis: group |-> list of ParsedAPI
  apiFile,            \* <output>/<group>/index.ts of every group
  typesFile,          \* <output>/<group>/types.ts of every group
  lastRun,            \* what the last update run read and generated
  changed,            \* the document changed since the last update run
  doc,                \* the API document handed to parseSwagger
  opIndex,            \* operations of the document parseSwagger has visited
  usedRefs,           \* parseSwagger's usedRefs, in insertion order
  parsedApis,         \* parseSwagger's apis: tag |-> list of ParsedAPI
  refsToProcess,      \* the work-list of the reference traversal
  processedRefs,      \* the visited set of the traversal, in insertion order
  emitIndex,          \* processed references the second loop has visited
  types,              \* parseSwagger's types: module |-> list of ParsedType
  moduleTypes,        \* the types of one module as the check command parses them
  existingTypes,      \* <output>/<module>/types.ts as the check command finds it
  declared,           \* the types that file declares
  typeChanges,        \* ModuleChangeReport.typeChanges of the last check
  parsedTypes,        \* parseSwagger's types, names as words: module, list
  moduleApis,         \* the operations of that module as the check parses them
  existingApi,        \* <output>/<module>/index.ts as the check command finds it
  exported,           \* the call names that file exports
  report,             \* ChangeReport.modules of the last check
  options,            \* UpdateOptions of the update run
  configTable,        \* config.tagMapping, an object in insertion order
  tags,               \* the first tags of the document's operations
  outputDir,          \* config.output: entry name |-> entry
  runMapping,         \* the table updateTagMapping returned to the run
  newTags,            \* the new tags updateTagMapping returned to the run
  model,              \* parseSwagger's apis of the run: module, operations
  moduleIndex,        \* modules the generation loop of the run has written
  log,                \* the file system calls of the run, in order
  atStart,            \* outputDir and config.tagMapping when the run began
  runs,               \* update runs begun so far
  emitInput,          \* what the generator under study is applied to
  emitText,           \* the text it returned
  command,            \* the command of the run: update or check
  location,           \* config.input and what is found there
  root,               \* whether the directory config.output exists
  changelog,          \* changelog.md of the working directory
  error               \* the error the run was rejected with

nameVars == <<method, segs, functionName>>
pathVars == <<path, cleanPath>>
cfgVars == <<packageJson, config>>
mergeVars == <<apis, apiFile, typesFile, lastRun, changed>>

parseVars ==
  <<doc, opIndex, usedRefs, parsedApis, refsToProcess, processedRefs,
    emitIndex, types>>

diffVars == <<moduleTypes, existingTypes, declared, typeChanges>>

checkVars == <<parsedTypes, moduleApis, existingApi, exported, report>>

runVars ==
  <<options, configTable, tags, outputDir, runMapping, newTags, model, moduleIndex,
    log, atStart, runs>>

emitVars == <<emitInput, emitText>>

loadVars == <<command, location, root, changelog, error>>

vars ==
  <<pc, nameVars, pathVars, cfgVars, mergeVars, parseVars, diffVars, checkVars,
    runVars, emitVars, loadVars>>

\* values of the variables a specification does not use
NameIdle == method = <<>> /\ segs = <<>> /\ functionName = <<>>
PathIdle == path = <<>> /\ cleanPath = <<>>
CfgIdle == packageJson = <<>> /\ config = <<>>
MergeIdle ==
  /\ apis = <<>> /\ apiFile = <<>> /\ typesFile = <<>>
  /\ lastRun = <<>> /\ changed = FALSE
ParseIdle ==
  /\ doc = <<>> /\ opIndex = 0 /\ usedRefs = <<>> /\ parsedApis = <<>>
  /\ refsToProcess = <<>> /\ processedRefs = <<>> /\ emitIndex = 0
  /\ types = <<>>
DiffIdle ==
  /\ moduleTypes = <<>> /\ existingTypes = <<>> /\ declared = <<>>
  /\ typeChanges = <<>>
CheckIdle ==
  /\ parsedTypes = <<>> /\ moduleApis = <<>> /\ existingApi = <<>>
  /\ exported = {} /\ report = <<>>
RunIdle ==
  /\ options = <<>> /\ configTable = <<>> /\ tags = <<>> /\ outputDir = <<>>
  /\ runMapping = <<>> /\ newTags = <<>> /\ model = <<>> /\ moduleIndex = 0
  /\ log = <<>> /\ atStart = <<>> /\ runs = 0
EmitIdle == emitInput = <<>> /\ emitText = <<>>
LoadIdle ==
  /\ command = <<>> /\ location = <<>> /\ root = FALSE /\ changelog = <<>>
  /\ error = <<>>

\* the variables each specification leaves alone
restOfName == <<cfgVars, mergeVars, parseVars, diffVars, checkVars,
    runVars, emitVars, loadVars>>
restOfPrefix == <<nameVars, mergeVars, parseVars, diffVars, checkVars,
    runVars, emitVars, loadVars>>
restOfMerge == <<nameVars, pathVars, cfgVars, parseVars, diffVars, checkVars,
    runVars, emitVars, loadVars>>
restOfParse == <<nameVars, pathVars, mergeVars, diffVars, checkVars,
    runVars, emitVars, loadVars>>
restOfDiff == <<nameVars, pathVars, cfgVars, mergeVars, parseVars, checkVars,
    runVars, emitVars, loadVars>>
restOfCheck ==
  <<nameVars, pathVars, cfgVars, mergeVars, parseVars, runVars, emitVars, loadVars>>
restOfRun ==
  <<nameVars, pathVars, cfgVars, mergeVars, parseVars, diffVars, checkVars,
    emitVars, loadVars>>
restOfEmit ==
  <<nameVars, pathVars, cfgVars, mergeVars, parseVars, diffVars, checkVars,
    runVars, loadVars>>
restOfLoad ==
  <<nameVars, pathVars, cfgVars, mergeVars, parseVars, diffVars, checkVars,
    emitVars>>

(***************************************************************************)
(* Characters and strings                                                  *)
(***************************************************************************)
LowerAlpha ==
  <<"a","b","c","d","e","f","g","h","i","j","k","l","m",
    "n","o","p","q","r","s","t","u","v","w","x","y","z">>

UpperAlpha ==
  <<"A","B","C","D","E","F","G","H","I","J","K","L","M",
    "N","O","P","Q","R","S","T","U","V","W","X","Y","Z">>

DigitChars == {"0","1","2","3","4","5","6","7","8","9"}

Range(s) == {s[i] : i \in 1..Len(s)}

IndexOfChar(alpha, c) == CHOOSE i \in 1..Len(alpha) : alpha[i] = c

\* String.prototype.toUpperCase on one character
toUpperCaseChar(c) ==
  IF c \in Range(LowerAlpha) THEN UpperAlpha[IndexOfChar(LowerAlpha, c)] ELSE c

\* String.prototype.toLowerCase on one character
toLowerCaseChar(c) ==
  IF c \in Range(UpperAlpha) THEN LowerAlpha[IndexOfChar(UpperAlpha, c)] ELSE c

toLowerCase(s) == [i \in 1..Len(s) |-> toLowerCaseChar(s[i])]

\* [a-zA-Z_] and [a-zA-Z0-9_] of the regular expressions
IsIdentStart(c) == c \in Range(LowerAlpha) \cup Range(UpperAlpha) \cup {"_"}
IsIdentChar(c) == IsIdentStart(c) \/ c \in DigitChars

RECURSIVE Flatten(_)
Flatten(ss) == IF ss = <<>> THEN <<>> ELSE Head(ss) \o Flatten(Tail(ss))

\* String.prototype.startsWith / endsWith
StartsWith(s, p) == Len(p) <= Len(s) /\ SubSeq(s, 1, Len(p)) = p
EndsWith(s, p) == Len(p) <= Len(s) /\ SubSeq(s, Len(s) - Len(p) + 1, Len(s)) = p

\* String.prototype.slice(n) for 0 <= n
SliceFrom(s, n) == SubSeq(s, n + 1, Len(s))

\* String.prototype.split on a one-character separator: "" splits to [""]
RECURSIVE SplitFrom(_, _, _, _)
SplitFrom(s, sep, i, cur) ==
  IF i > Len(s) THEN <<cur>>
  ELSE IF s[i] = sep THEN <<cur>> \o SplitFrom(s, sep, i + 1, <<>>)
  ELSE SplitFrom(s, sep, i + 1, Append(cur, s[i]))

Split(s, sep) == SplitFrom(s, sep, 1, <<>>)

(***************************************************************************)
(* utils/naming                                                            *)
(***************************************************************************)
\* .replace(/[-_](.)/g, (_, char) => char.toUpperCase()), scanning from i
RECURSIVE CamelScan(_, _)
CamelScan(s, i) ==
  IF i > Len(s) THEN <<>>
  ELSE IF s[i] \in {"-", "_"} /\ i < Len(s) /\ s[i + 1] # "\n"
    THEN <<toUpperCaseChar(s[i + 1])>> \o CamelScan(s, i + 2)
  ELSE <<s[i]>> \o CamelScan(s, i + 1)

toCamelCase(str) ==
  LET replaced == CamelScan(str, 1) IN
  IF replaced = <<>> \/ replaced[1] = "\n" THEN replaced
  ELSE <<toLowerCaseChar(replaced[1])>> \o Tail(replaced)

toPascalCase(str) ==
  LET camel == toCamelCase(str) IN
  IF camel = <<>> THEN <<>>
  ELSE <<toUpperCaseChar(camel[1])>> \o Tail(camel)

\* the index of the first "}" after position i, or 0
FirstClose(s, i) ==
  IF \E j \in (i + 1)..Len(s) : s[j] = "}"
  THEN CHOOSE j \in (i + 1)..Len(s) :
         s[j] = "}" /\ \A k \in (i + 1)..(j - 1) : s[k] # "}"
  ELSE 0

\* .replace(/\{([^}]+)\}/g, (_, param) => `/By${toPascalCase(param)}`)
RECURSIVE ReplaceBraceParams(_, _)
ReplaceBraceParams(s, i) ==
  IF i > Len(s) THEN <<>>
  ELSE LET j == FirstClose(s, i) IN
    IF s[i] = "{" /\ j > i + 1
    THEN <<"/", "B", "y">> \o toPascalCase(SubSeq(s, i + 1, j - 1))
           \o ReplaceBraceParams(s, j + 1)
    ELSE <<s[i]>> \o ReplaceBraceParams(s, i + 1)

\* the last index of the run [a-zA-Z0-9_]* that starts at i
RECURSIVE IdentEnd(_, _)
IdentEnd(s, i) ==
  IF i < Len(s) /\ IsIdentChar(s[i + 1]) THEN IdentEnd(s, i + 1) ELSE i

\* .replace(/:([a-zA-Z_][a-zA-Z0-9_]*)/g, (_, param) => `/By${toPascalCase(param)}`)
RECURSIVE ReplaceColonParams(_, _)
ReplaceColonParams(s, i) ==
  IF i > Len(s) THEN <<>>
  ELSE IF s[i] = ":" /\ i < Len(s) /\ IsIdentStart(s[i + 1])
    THEN LET j == IdentEnd(s, i + 1) IN
         <<"/", "B", "y">> \o toPascalCase(SubSeq(s, i + 1, j))
           \o ReplaceColonParams(s, j + 1)
  ELSE <<s[i]>> \o ReplaceColonParams(s, i + 1)

\* .filter(Boolean).map(part => toPascalCase(part)).join('')
RECURSIVE PascalJoin(_)
PascalJoin(parts) ==
  IF parts = <<>> THEN <<>>
  ELSE (IF Head(parts) = <<>> THEN <<>> ELSE toPascalCase(Head(parts)))
         \o PascalJoin(Tail(parts))

\* generateFunctionName without the Express-style (:param) replacement
generateFunctionName_braceOnly(m, p) ==
  LET processedPath == ReplaceBraceParams(p, 1)
      pathParts == PascalJoin(Split(processedPath, "/"))
  IN toLowerCase(m) \o pathParts

generateFunctionName(m, p) ==
  LET processedPath == ReplaceColonParams(ReplaceBraceParams(p, 1), 1)
      pathParts == PascalJoin(Split(processedPath, "/"))
  IN toLowerCase(m) \o pathParts

(***************************************************************************)
(* Call-name derivation: generateFunctionName applied to a cleaned path    *)
(***************************************************************************)
MaxSegs == 4

Chars_orders == <<"o","r","d","e","r","s">>
Chars_items == <<"i","t","e","m","s">>
Chars_id == <<"i","d">>
Chars_itemId == <<"i","t","e","m","I","d">>
Chars_posDevices == <<"p","o","s","-","d","e","v","i","c","e","s">>
Chars_user_id == <<"u","s","e","r","_","i","d">>
Chars_get == <<"g","e","t">>
Chars_GET == <<"G","E","T">>
Chars_Post == <<"P","o","s","t">>

\* the verbs: parseSwagger2 passes the lowercase key, callers of the exported
\* function may pass any case
Methods == {Chars_GET, Chars_Post}

\* a path segment as written in the document: a literal, {param} or :param
Segments ==
  [kind : {"lit"}, text : {Chars_orders, Chars_items, Chars_posDevices}]
    \cup [kind : {"brace", "colon"}, text : {Chars_id, Chars_itemId, Chars_user_id}]

SegSeqs == UNION {[1..n -> Segments] : n \in 1..MaxSegs}

RenderSegment(seg) ==
  CASE seg.kind = "lit" -> seg.text
    [] seg.kind = "brace" -> <<"{">> \o seg.text \o <<"}">>
    [] seg.kind = "colon" -> <<":">> \o seg.text

RenderPath(ss) == Flatten([i \in 1..Len(ss) |-> <<"/">> \o RenderSegment(ss[i])])

InitName ==
  /\ RunIdle /\ EmitIdle /\ LoadIdle
  /\ pc = "name"
  /\ method \in Methods
  /\ segs \in SegSeqs
  /\ cleanPath = RenderPath(segs)
  /\ path = <<>>
  /\ functionName = <<>>
  /\ CfgIdle /\ MergeIdle /\ ParseIdle /\ DiffIdle /\ CheckIdle

\* parseOperation line 295: functionName = generateFunctionName(method, cleanPath)
DeriveName ==
  /\ pc = "name"
  /\ functionName' = generateFunctionName(method, cleanPath)
  /\ pc' = "named"
  /\ UNCHANGED <<method, segs, path, cleanPath, restOfName>>

NextName == DeriveName

SpecName == InitName /\ [][NextName]_vars

\* what the claim says a segment contributes to the call name
SegmentCallName(seg) ==
  IF seg.kind = "lit" THEN toPascalCase(seg.text)
  ELSE <<"B", "y">> \o toPascalCase(seg.text)

\* the same path with every :param written {param}
Braced(ss) ==
  [i \in 1..Len(ss) |->
     IF ss[i].kind = "colon" THEN [ss[i] EXCEPT !.kind = "brace"] ELSE ss[i]]

ExampleSegs ==
  <<[kind |-> "lit", text |-> Chars_orders], [kind |-> "brace", text |-> Chars_id],
    [kind |-> "lit", text |-> Chars_items], [kind |-> "brace", text |-> Chars_itemId]>>

Chars_getOrdersByIdItemsByItemId ==
  <<"g","e","t","O","r","d","e","r","s","B","y","I","d",
    "I","t","e","m","s","B","y","I","t","e","m","I","d">>

\* C9: the call name is the lowercase verb followed, segment by segment, by the
\* Pascal-cased literal or By<PascalParam> for a {param} or :param segment; GET
\* /orders/{id}/items/{itemId} gives getOrdersByIdItemsByItemId; a path written
\* with :param gives the name of the same path written with {param}.
C9_CallName ==
  pc = "named" =>
    /\ functionName =
         toLowerCase(method)
           \o Flatten([i \in 1..Len(segs) |-> SegmentCallName(segs[i])])
    /\ (method = Chars_GET /\ segs = ExampleSegs
          => functionName = Chars_getOrdersByIdItemsByItemId)
    /\ functionName = generateFunctionName(method, RenderPath(Braced(segs)))

\* C9 witness: the name of GET /orders/:id/items/:itemId has been derived
C9_Witness ==
  /\ pc = "named"
  /\ method = Chars_GET
  /\ segs # ExampleSegs
  /\ Braced(segs) = ExampleSegs
  /\ \A i \in 1..Len(segs) : segs[i].kind # "brace"
  /\ functionName = Chars_getOrdersByIdItemsByItemId

(***************************************************************************)
(* types.ts defaultConfig and core/config.ts loadConfig                    *)
(***************************************************************************)
\* the JSON value null (no property of a model document is named so)
Null == "null"

Chars_api == <<"/","a","p","i">>
Chars_apiV1 == <<"/","a","p","i","/","v","1">>
Chars_Request == <<"R","e","q","u","e","s","t">>
Chars_Response == <<"R","e","s","p","o","n","s","e">>

defaultConfig ==
  [ requestStyle |-> "chain",
    pathPrefixFilter |-> <<Chars_apiV1, Chars_api>>,
    typeNameSuffixFilter |-> <<Chars_Request, Chars_Response>>,
    excludeFields |-> <<>>,
    unwrapResponseField |-> "data",
    tagMapping |-> <<>>,
    includeTags |-> <<>>,
    excludeTags |-> <<>> ]

\* Array.prototype.sort((a, b) => b.length - a.length): stable, longest first
RECURSIVE InsertByLength(_, _)
InsertByLength(sorted, x) ==
  IF sorted = <<>> THEN <<x>>
  ELSE IF Len(Head(sorted)) >= Len(x)
    THEN <<Head(sorted)>> \o InsertByLength(Tail(sorted), x)
  ELSE <<x>> \o sorted

RECURSIVE SortByLengthDesc(_)
SortByLengthDesc(list) ==
  IF list = <<>> THEN <<>>
  ELSE InsertByLength(SortByLengthDesc(SubSeq(list, 1, Len(list) - 1)),
                      list[Len(list)])

\* loadConfig without the final sort of pathPrefixFilter
loadConfig_unsorted(pj) ==
  IF ~pj.exists THEN defaultConfig
  ELSE IF ~pj.parses THEN defaultConfig
  ELSE LET userConfig == pj.userConfig
       IN [f \in DOMAIN defaultConfig |->
             IF f \in DOMAIN userConfig THEN userConfig[f]
             ELSE defaultConfig[f]]

\* pj.userConfig is packageJson['swagger-typegen'] || {}: a record holding
\* exactly the fields the user wrote
loadConfig(pj) ==
  IF ~pj.exists THEN defaultConfig
  ELSE IF ~pj.parses THEN defaultConfig
  ELSE LET userConfig == pj.userConfig
           merged == [f \in DOMAIN defaultConfig |->
                        IF f \in DOMAIN userConfig THEN userConfig[f]
                        ELSE defaultConfig[f]]
       IN [merged EXCEPT !.pathPrefixFilter = SortByLengthDesc(@)]

\* naming.ts cleanPathPrefix: the first prefix of the list the path starts with
RECURSIVE cleanPathPrefix(_, _)
cleanPathPrefix(p, prefixes) ==
  IF prefixes = <<>> THEN p
  ELSE IF StartsWith(p, Head(prefixes))
    THEN LET result == SliceFrom(p, Len(Head(prefixes))) IN
         IF StartsWith(result, <<"/">>) THEN result ELSE <<"/">> \o result
  ELSE cleanPathPrefix(p, Tail(prefixes))

(***************************************************************************)
(* Prefix stripping: loadConfig, then cleanPathPrefix on a raw path        *)
(***************************************************************************)
MaxPrefixes == 3

Chars_v1 == <<"/","v","1">>
Chars_apiV == <<"/","a","p","i","/","v">>
Chars_slashOrders == <<"/">> \o Chars_orders

PrefixChoices == {Chars_apiV1, Chars_api, Chars_v1, Chars_apiV}

\* the strip-lists a user may write: no entry twice, any order
StripLists ==
  UNION {{l \in [1..n -> PrefixChoices] :
            \A i, j \in 1..n : i # j => l[i] # l[j]} : n \in 0..MaxPrefixes}

PackageJsons ==
  {[exists |-> FALSE, parses |-> FALSE, userConfig |-> <<>>],
   [exists |-> TRUE, parses |-> FALSE, userConfig |-> <<>>],
   [exists |-> TRUE, parses |-> TRUE, userConfig |-> <<>>]}
    \cup {[exists |-> TRUE, parses |-> TRUE,
           userConfig |-> [pathPrefixFilter |-> l]] : l \in StripLists}

RawPaths ==
  {Chars_apiV1 \o Chars_slashOrders, Chars_api \o Chars_slashOrders,
   Chars_slashOrders, Chars_apiV1, Chars_api,
   Chars_v1 \o Chars_slashOrders, Chars_api \o Chars_orders,
   Chars_apiV \o Chars_slashOrders}

InitPrefix ==
  /\ RunIdle /\ EmitIdle /\ LoadIdle
  /\ pc = "load"
  /\ packageJson \in PackageJsons
  /\ path \in RawPaths
  /\ config = <<>>
  /\ cleanPath = <<>>
  /\ NameIdle /\ MergeIdle /\ ParseIdle /\ DiffIdle /\ CheckIdle

\* cli: const config = loadConfig()
LoadConfig ==
  /\ pc = "load"
  /\ config' = loadConfig(packageJson)
  /\ pc' = "clean"
  /\ UNCHANGED <<packageJson, pathVars, restOfPrefix>>

\* parseOperation line 294: cleanPath = cleanPathPrefix(path, config.pathPrefixFilter)
CleanPath ==
  /\ pc = "clean"
  /\ cleanPath' = cleanPathPrefix(path, config.pathPrefixFilter)
  /\ pc' = "cleaned"
  /\ UNCHANGED <<path, cfgVars, restOfPrefix>>

NextPrefix == LoadConfig \/ CleanPath

SpecPrefix == InitPrefix /\ [][NextPrefix]_vars

\* the strip-list as configured: the user's, in the user's order, or the default
ConfiguredStripList ==
  IF packageJson.exists /\ packageJson.parses
       /\ "pathPrefixFilter" \in DOMAIN packageJson.userConfig
  THEN packageJson.userConfig.pathPrefixFilter
  ELSE defaultConfig.pathPrefixFilter

\* C6: whatever the order of the configured strip-list, the cleaned path is the
\* raw path without the longest configured prefix it starts with (given a
\* leading "/" when the rest lacks one); a path no prefix matches is unchanged;
\* with the list {/api/v1, /api}, /api/v1/orders cleans to /orders.
C6_LongestPrefix ==
  pc = "cleaned" =>
    LET list == ConfiguredStripList
        matching == {i \in 1..Len(list) : StartsWith(path, list[i])}
    IN /\ matching = {} => cleanPath = path
       /\ matching # {} =>
            \E i \in matching :
              /\ \A j \in matching : Len(list[j]) <= Len(list[i])
              /\ LET rest == SubSeq(path, Len(list[i]) + 1, Len(path)) IN
                 cleanPath = IF rest # <<>> /\ rest[1] = "/" THEN rest
                             ELSE <<"/">> \o rest
       /\ (Range(list) = {Chars_apiV1, Chars_api}
             /\ path = Chars_apiV1 \o Chars_slashOrders
            => cleanPath = Chars_slashOrders)

\* C6 witness: the user listed /api before /api/v1 and /api/v1/orders was cleaned
C6_Witness ==
  /\ pc = "cleaned"
  /\ packageJson.exists /\ packageJson.parses
  /\ "pathPrefixFilter" \in DOMAIN packageJson.userConfig
  /\ packageJson.userConfig.pathPrefixFilter = <<Chars_api, Chars_apiV1>>
  /\ path = Chars_apiV1 \o Chars_slashOrders
  /\ cleanPath = Chars_slashOrders

(***************************************************************************)
(* generators/apiGenerator: the function file and its merge                *)
(*                                                                         *)
(* A file is a sequence of lines; a line is a tuple of strings.  A         *)
(* hand-written file holds the sentinel markers wherever its author put    *)
(* them.                                                                   *)
(***************************************************************************)
AUTO_GEN_START == <<"// --- AUTO GENERATED START ---">>
AUTO_GEN_END == <<"// --- AUTO GENERATED END ---">>

BlankLine == <<"">>

\* String.prototype.indexOf: the position (from 0) of the first occurrence, or -1
IndexOf(content, line) ==
  IF \E i \in 1..Len(content) : content[i] = line
  THEN (CHOOSE i \in 1..Len(content) :
          content[i] = line /\ \A k \in 1..(i - 1) : content[k] # line) - 1
  ELSE -1

\* String.prototype.slice(from, to) and slice(from), positions from 0
Slice(content, from, to) == SubSeq(content, from + 1, to)
SliceTail(content, from) == SubSeq(content, from + 1, Len(content))

\* the type names of the model, in the order of Array.prototype.sort
SortedTypeNames == <<"Order", "User">>

\* generateImports: the client import, then the type-only import of the
\* response types of the list, each once, sorted
generateImports(list) ==
  LET typeNames == {list[i].responseTypeName : i \in 1..Len(list)}
      sorted == SelectSeq(SortedTypeNames, LAMBDA n : n \in typeNames)
  IN <<<<"import { requestClient } from '@/utils/request'">>>>
       \o (IF typeNames # {} THEN <<<<"import type">> \o sorted>> ELSE <<>>)

\* generateApiFunction: the exported function of one operation
generateApiFunction(api) ==
  <<"export const", api.functionName, api.responseTypeName>>

generateApiFile(list) ==
  <<<<"/**">>, <<" * generated by swagger-typegen">>,
    <<" * generated code lies between the AUTO GENERATED markers">>,
    <<" * code outside the markers is not overwritten">>, <<" */">>, BlankLine>>
    \o generateImports(list)
    \o <<BlankLine, AUTO_GEN_START, BlankLine>>
    \o Flatten([i \in 1..Len(list) |-> <<generateApiFunction(list[i]), BlankLine>>])
    \o <<AUTO_GEN_END, BlankLine>>

\* mergeWithExisting that also keeps the end marker of the prior file
mergeWithExisting_keepsOldEnd(existingContent, newContent) ==
  LET existingStartIndex == IndexOf(existingContent, AUTO_GEN_START)
      existingEndIndex == IndexOf(existingContent, AUTO_GEN_END)
      newStartIndex == IndexOf(newContent, AUTO_GEN_START)
      newEndIndex == IndexOf(newContent, AUTO_GEN_END)
  IN IF existingStartIndex = -1 \/ existingEndIndex = -1 THEN newContent
     ELSE IF newStartIndex = -1 \/ newEndIndex = -1 THEN newContent
     ELSE Slice(existingContent, 0, existingStartIndex)
            \o Slice(newContent, newStartIndex, newEndIndex + 1)
            \o SliceTail(existingContent, existingEndIndex)

\* mergeWithExisting that merges whenever the prior file holds one of the markers
mergeWithExisting_eitherMarker(existingContent, newContent) ==
  LET existingStartIndex == IndexOf(existingContent, AUTO_GEN_START)
      existingEndIndex == IndexOf(existingContent, AUTO_GEN_END)
      newStartIndex == IndexOf(newContent, AUTO_GEN_START)
      newEndIndex == IndexOf(newContent, AUTO_GEN_END)
  IN IF existingStartIndex = -1 /\ existingEndIndex = -1 THEN newContent
     ELSE Slice(existingContent, 0,
                IF existingStartIndex = -1 THEN 0 ELSE existingStartIndex)
            \o Slice(newContent, newStartIndex, newEndIndex + 1)
            \o SliceTail(existingContent, existingEndIndex + 1)

mergeWithExisting(existingContent, newContent) ==
  LET existingStartIndex == IndexOf(existingContent, AUTO_GEN_START)
      existingEndIndex == IndexOf(existingContent, AUTO_GEN_END)
      newStartIndex == IndexOf(newContent, AUTO_GEN_START)
      newEndIndex == IndexOf(newContent, AUTO_GEN_END)
  IN IF existingStartIndex = -1 \/ existingEndIndex = -1 THEN newContent
     ELSE IF newStartIndex = -1 \/ newEndIndex = -1 THEN newContent
     ELSE LET newAutoGenPart == Slice(newContent, newStartIndex, newEndIndex + 1)
              beforeAutoGen == Slice(existingContent, 0, existingStartIndex)
              afterAutoGen == SliceTail(existingContent, existingEndIndex + 1)
          IN beforeAutoGen \o newAutoGenPart \o afterAutoGen

(***************************************************************************)
(* commands/update: the files of every group are regenerated               *)
(***************************************************************************)
MaxPriorLen == 3
MaxFileLen == 30

Groups == {"user", "order"}

FileAbsent == [exists |-> FALSE, content |-> <<>>]
File(c) == [exists |-> TRUE, content |-> c]

\* the text generateTypesFile returns for the operations of a group
generateTypesFile(list) ==
  <<<<"/**">>, <<" * generated by swagger-typegen, do not edit">>, <<" */">>,
    BlankLine>>
    \o Flatten([i \in 1..Len(list) |->
                  <<<<"export interface", list[i].responseTypeName>>, BlankLine>>])

\* update.ts generateModuleTypes: the type file is overwritten
generateModuleTypes(list) == File(generateTypesFile(list))

\* update.ts generateModuleApi: merge into an existing file, else write
generateModuleApi(file, list) ==
  LET newContent == generateApiFile(list) IN
  IF file.exists THEN File(mergeWithExisting(file.content, newContent))
  ELSE File(newContent)

Op_getUsers == [functionName |-> "getUsers", responseTypeName |-> "User"]
Op_postUsers == [functionName |-> "postUsers", responseTypeName |-> "User"]
Op_getOrders == [functionName |-> "getOrders", responseTypeName |-> "Order"]

\* the models parseSwagger may return: group |-> operations, for the groups
\* that have any
ApiModels ==
  {[user |-> <<Op_getUsers>>],
   [user |-> <<Op_getUsers, Op_postUsers>>, order |-> <<Op_getOrders>>],
   [order |-> <<Op_getOrders>>]}

HandLine == <<"export const customFunction = () => {}">>

\* any content of a function file: hand-written lines and markers in any order
PriorContents ==
  UNION {[1..n -> {AUTO_GEN_START, AUTO_GEN_END, HandLine}] : n \in 0..MaxPriorLen}

\* a file of an earlier run with hand-written code added on both sides
EditedUserFile ==
  <<HandLine>> \o generateApiFile(<<Op_getUsers>>) \o <<HandLine>>

PriorApiFiles(g) ==
  IF g = "user"
  THEN {FileAbsent, File(EditedUserFile)} \cup {File(c) : c \in PriorContents}
  ELSE {FileAbsent, File(generateApiFile(<<Op_getOrders>>) \o <<HandLine>>)}

PriorTypesFiles == {FileAbsent, File(<<<<"export interface", "Old">>>>)}

NoRun ==
  [ran |-> FALSE, repeat |-> FALSE, clean |-> FALSE, before |-> <<>>,
   typesBefore |-> <<>>, read |-> <<>>, generated |-> <<>>]

InitMerge ==
  /\ RunIdle /\ EmitIdle /\ LoadIdle
  /\ pc = "idle"
  /\ apis \in ApiModels
  /\ apiFile \in {f \in [Groups -> UNION {PriorApiFiles(g) : g \in Groups}] :
                    \A g \in Groups : f[g] \in PriorApiFiles(g)}
  /\ \E f \in PriorTypesFiles : typesFile = [g \in Groups |-> f]
  /\ lastRun = NoRun
  /\ changed = FALSE
  /\ NameIdle /\ PathIdle /\ CfgIdle /\ ParseIdle /\ DiffIdle /\ CheckIdle

\* update.ts cleanOutputDir: every entry but tag-mapping.json is removed
cleanOutputDir(files) == [g \in Groups |-> FileAbsent]

\* runUpdate lines 67-93: the optional clean, then types.ts and index.ts of
\* every group of the model
RunUpdate(clean) ==
  LET readApi == IF clean THEN cleanOutputDir(apiFile) ELSE apiFile
      readTypes == IF clean THEN cleanOutputDir(typesFile) ELSE typesFile
      newApi == [g \in Groups |->
                   IF g \in DOMAIN apis THEN generateModuleApi(readApi[g], apis[g])
                   ELSE readApi[g]]
      newTypes == [g \in Groups |->
                     IF g \in DOMAIN apis THEN generateModuleTypes(apis[g])
                     ELSE readTypes[g]]
  IN /\ \A g \in Groups : Len(newApi[g].content) <= MaxFileLen
     /\ apiFile' = newApi
     /\ typesFile' = newTypes
     /\ lastRun' = [ran |-> TRUE,
                    repeat |-> lastRun.ran /\ ~changed /\ lastRun.clean = clean,
                    clean |-> clean,
                    before |-> apiFile,
                    typesBefore |-> typesFile,
                    read |-> readApi,
                    generated |-> [g \in DOMAIN apis |-> generateApiFile(apis[g])]]
     /\ changed' = FALSE
     /\ UNCHANGED <<pc, apis, restOfMerge>>

UpdateKeeping == RunUpdate(FALSE)
UpdateClean == RunUpdate(TRUE)

\* the API document is edited between two runs
ChangeDocument ==
  /\ apis' \in ApiModels \ {apis}
  /\ changed' = TRUE
  /\ UNCHANGED <<pc, apiFile, typesFile, lastRun, restOfMerge>>

NextMerge == UpdateKeeping \/ UpdateClean \/ ChangeDocument

SpecMerge == InitMerge /\ [][NextMerge]_vars

\* the groups the last run wrote, and what it read and generated for them
WrittenGroups == IF lastRun.ran THEN DOMAIN lastRun.generated ELSE {}
PriorText(g) == lastRun.read[g].content
NewText(g) == lastRun.generated[g]
HasLine(c, line) == \E i \in 1..Len(c) : c[i] = line
HasBothMarkers(c) == HasLine(c, AUTO_GEN_START) /\ HasLine(c, AUTO_GEN_END)
\* the place (from 1) of the first occurrence of a line in a text that has it
FirstAt(c, line) ==
  CHOOSE i \in 1..Len(c) : c[i] = line /\ \A k \in 1..(i - 1) : c[k] # line

\* C1: when the function file read by a run holds both markers, the file
\* written is the prior text before its start marker, then the start marker to
\* the end marker of the new text, then the prior text after its end marker
C1_MergeSplice ==
  \A g \in WrittenGroups :
    (lastRun.read[g].exists /\ HasBothMarkers(PriorText(g))) =>
      LET p == FirstAt(PriorText(g), AUTO_GEN_START)
          q == FirstAt(PriorText(g), AUTO_GEN_END)
          ns == FirstAt(NewText(g), AUTO_GEN_START)
          ne == FirstAt(NewText(g), AUTO_GEN_END)
      IN /\ HasBothMarkers(NewText(g))
         /\ apiFile[g].exists
         /\ apiFile[g].content =
              SubSeq(PriorText(g), 1, p - 1) \o SubSeq(NewText(g), ns, ne)
                \o SubSeq(PriorText(g), q + 1, Len(PriorText(g)))

\* a run has merged into a file with hand-written lines on both sides of the
\* markers, for a document that gained an operation since the file was written
C1_Witness ==
  /\ lastRun.ran /\ "user" \in WrittenGroups
  /\ lastRun.read["user"] = File(EditedUserFile)
  /\ apis["user"] = <<Op_getUsers, Op_postUsers>>
  /\ apiFile["user"].content[1] = HandLine
  /\ apiFile["user"].content[Len(apiFile["user"].content)] = HandLine
  /\ HasLine(apiFile["user"].content, generateApiFunction(Op_postUsers))

\* C2: when the function file read by a run lacks a marker, or there was no
\* file, the file written is the new text, verbatim
C2_OverwriteOrFresh ==
  \A g \in WrittenGroups :
    (~lastRun.read[g].exists \/ ~HasBothMarkers(PriorText(g))) =>
      apiFile[g] = File(NewText(g))

\* a run has overwritten a file that held the start marker only, and a run has
\* written a file where there was none
C2_Witness ==
  /\ "user" \in WrittenGroups /\ "order" \in WrittenGroups
  /\ lastRun.read["user"] = File(<<HandLine, AUTO_GEN_START, HandLine>>)
  /\ ~lastRun.read["order"].exists
  /\ apiFile["order"] = File(generateApiFile(<<Op_getOrders>>))

\* C3: a run that repeats the previous run, with the document unchanged,
\* leaves the files of the output directory as the previous run left them
C3_Idempotent ==
  (lastRun.ran /\ lastRun.repeat) =>
    (apiFile = lastRun.before /\ typesFile = lastRun.typesBefore)

\* the function files in which the first start marker precedes the first end
\* marker, or a marker is missing
MarkersInOrder(c) ==
  HasBothMarkers(c) => IndexOf(c, AUTO_GEN_START) < IndexOf(c, AUTO_GEN_END)

\* a repeated run changes nothing when the markers of the files it reads are
\* in order
C3_IdempotentInOrder ==
  (lastRun.ran /\ lastRun.repeat
     /\ \A g \in Groups : MarkersInOrder(lastRun.before[g].content)) =>
    (apiFile = lastRun.before /\ typesFile = lastRun.typesBefore)

(***************************************************************************)
(* core/parser.ts: schemas, references and the type names of a document    *)
(*                                                                         *)
(* A schema is a record that holds exactly the fields the document gives   *)
(* it: ref ($ref), type, properties (name/schema pairs in document order), *)
(* items, allOf, additionalProperties (a schema, or [boolean |-> TRUE] for  *)
(* the value true).  A reference is the pair of its path prefix and the    *)
(* name after it.                                                          *)
(***************************************************************************)
Has(obj, field) == field \in DOMAIN obj

\* the value undefined of a string-valued field
Undefined == <<"undefined">>

\* an absent schema (bodySchema, responseSchema: SchemaObject | undefined)
NoSchema == [absent |-> TRUE]

Prefix2 == "#/definitions/"
Prefix3 == "#/components/schemas/"

Chars_Prefix2 ==
  <<"#","/","d","e","f","i","n","i","t","i","o","n","s","/">>
Chars_Prefix3 ==
  <<"#","/","c","o","m","p","o","n","e","n","t","s","/",
    "s","c","h","e","m","a","s","/">>

Chars_User == <<"U","s","e","r">>
Chars_Order == <<"O","r","d","e","r">>
Chars_model == <<"m","o","d","e","l">>
Chars_Env == <<"E","n","v">>
Chars_List == <<"L","i","s","t">>
Chars_Text == <<"T","e","x","t">>
Chars_Bare == <<"B","a","r","e">>
Chars_Node == <<"N","o","d","e">>
Chars_Ping == <<"P","i","n","g">>
Chars_Pong == <<"P","o","n","g">>
Chars_Bag == <<"B","a","g">>
Chars_Kind == <<"K","i","n","d">>
Chars_Ghost == <<"G","h","o","s","t">>
Chars_user == <<"u","s","e","r">>
Chars_Profile == <<"P","r","o","f","i","l","e">>
Chars_Role == <<"R","o","l","e">>
Chars_common == <<"c","o","m","m","o","n">>
Chars_default == <<"d","e","f","a","u","l","t">>
Chars_string == <<"s","t","r","i","n","g">>
Chars_number == <<"n","u","m","b","e","r">>
Chars_boolean == <<"b","o","o","l","e","a","n">>
Chars_unknown == <<"u","n","k","n","o","w","n">>
Chars_Record ==
  <<"R","e","c","o","r","d","<">> \o Chars_string \o <<","," ">>
    \o Chars_unknown \o <<">">>
Chars_Brackets == <<"[","]">>

\* the characters of the names the model's documents use
TypeNameChars ==
  ("User" :> Chars_User)
    @@ ("model.OrderResponse" :>
          Chars_model \o <<".">> \o Chars_Order \o Chars_Response)
    @@ ("Env" :> Chars_Env)
    @@ ("EnvList" :> Chars_Env \o Chars_List)
    @@ ("EnvText" :> Chars_Env \o Chars_Text)
    @@ ("EnvBare" :> Chars_Env \o Chars_Bare)
    @@ ("Node" :> Chars_Node)
    @@ ("Ping" :> Chars_Ping)
    @@ ("Pong" :> Chars_Pong)
    @@ ("Bag" :> Chars_Bag)
    @@ ("Kind" :> Chars_Kind)
    @@ ("Ghost" :> Chars_Ghost)
    @@ ("user.Profile" :> Chars_user \o <<".">> \o Chars_Profile)
    @@ ("user.Role" :> Chars_user \o <<".">> \o Chars_Role)
    @@ ("user.UserResponse" :> Chars_user \o <<".">> \o Chars_User \o Chars_Response)

PrefixChars(prefix) ==
  IF prefix = Prefix2 THEN Chars_Prefix2
  ELSE IF prefix = Prefix3 THEN Chars_Prefix3
  ELSE <<>>

\* ref.replace(prefix, ''): a reference that starts otherwise is unchanged
StripPrefix(ref, prefix) == IF ref[1] = prefix THEN <<"", ref[2]>> ELSE ref

\* the characters of a reference, or of what replace left of it
RefText(ref) == PrefixChars(ref[1]) \o TypeNameChars[ref[2]]

\* definitions[refName]: the schema under that key, if there is one
IsDefined(definitions, refName) ==
  refName[1] = "" /\ refName[2] \in DOMAIN definitions

\* Set.prototype.add on a set kept in insertion order
SetAdd(set, x) == IF x \in Range(set) THEN set ELSE Append(set, x)

\* schema.properties?.[field]
HasProperty(schema, field) ==
  /\ Has(schema, "properties")
  /\ \E i \in 1..Len(schema.properties) : schema.properties[i].name = field

Property(schema, field) ==
  schema.properties[CHOOSE i \in 1..Len(schema.properties) :
                      schema.properties[i].name = field].schema

\* naming.ts removeTypeSuffix: the first suffix of the list the name ends with
RECURSIVE removeTypeSuffix(_, _)
removeTypeSuffix(name, suffixes) ==
  IF suffixes = <<>> THEN name
  ELSE IF EndsWith(name, Head(suffixes))
    THEN SubSeq(name, 1, Len(name) - Len(Head(suffixes)))
  ELSE removeTypeSuffix(name, Tail(suffixes))

\* naming.ts cleanTypeName: last dotted part, PascalCase, suffix removed
cleanTypeName(name, suffixesToRemove) ==
  LET parts == Split(name, ".")
      cleanName == toPascalCase(parts[Len(parts)])
  IN removeTypeSuffix(cleanName, suffixesToRemove)

tagToDirectoryName(tag) == toCamelCase(tag)

\* tagMapping.ts applyTagMapping: mapping[tag] || tag
applyTagMapping(tag, mapping) ==
  IF tag \in DOMAIN mapping /\ mapping[tag] # <<>> THEN mapping[tag] ELSE tag

\* tagMapping.ts loadTagMapping: the configured mapping, else the mapping file's
loadTagMapping(fileMapping, configMapping) ==
  IF DOMAIN configMapping # {} THEN configMapping ELSE fileMapping

\* parser.ts getModuleFromTypeName
getModuleFromTypeName(typeName) ==
  LET parts == Split(typeName, ".")
  IN IF Len(parts) > 1 THEN tagToDirectoryName(parts[1]) ELSE Chars_common

\* parser.ts parseType
parseType(refName, schema, cfg) ==
  [ originalName |-> refName,
    name |-> cleanTypeName(TypeNameChars[refName], cfg.typeNameSuffixFilter),
    schema |-> schema ]

\* parser.ts collectRefs: the references pushed, in the order they are pushed
RECURSIVE collectRefs(_)
collectRefs(schema) ==
  IF Has(schema, "ref") THEN <<schema.ref>>
  ELSE (IF Has(schema, "properties")
        THEN Flatten([i \in 1..Len(schema.properties) |->
                        collectRefs(schema.properties[i].schema)])
        ELSE <<>>)
       \o (IF Has(schema, "items") THEN collectRefs(schema.items) ELSE <<>>)
       \o (IF Has(schema, "allOf")
           THEN Flatten([i \in 1..Len(schema.allOf) |-> collectRefs(schema.allOf[i])])
           ELSE <<>>)
       \o (IF Has(schema, "additionalProperties")
              /\ ~Has(schema.additionalProperties, "boolean")
           THEN collectRefs(schema.additionalProperties)
           ELSE <<>>)

\* schemaTypeToTs and schemaTypeToTs3, which differ in the prefix they remove
RECURSIVE schemaTypeToTsOf(_, _)
schemaTypeToTsOf(prefix, schema) ==
  IF Has(schema, "ref")
  THEN LET parts == Split(RefText(StripPrefix(schema.ref, prefix)), ".")
       IN IF parts[Len(parts)] # <<>> THEN parts[Len(parts)] ELSE Chars_unknown
  ELSE IF ~Has(schema, "type") THEN Chars_unknown
  ELSE CASE schema.type = "string" -> Chars_string
         [] schema.type \in {"integer", "number"} -> Chars_number
         [] schema.type = "boolean" -> Chars_boolean
         [] schema.type = "array" ->
              IF Has(schema, "items")
              THEN schemaTypeToTsOf(prefix, schema.items) \o Chars_Brackets
              ELSE Chars_unknown \o Chars_Brackets
         [] schema.type = "object" -> Chars_Record
         [] OTHER -> Chars_unknown

schemaTypeToTs(schema) == schemaTypeToTsOf(Prefix2, schema)
schemaTypeToTs3(schema) == schemaTypeToTsOf(Prefix3, schema)

\* extractUnwrappedType that always answers with the envelope's name
extractUnwrappedTypeOf_envelope(prefix, ref, unwrapField, definitions, cfg, used) ==
  LET refName == StripPrefix(ref, prefix) IN
  IF ~IsDefined(definitions, refName) THEN [name |-> Undefined, usedRefs |-> used]
  ELSE [name |-> cleanTypeName(RefText(refName), cfg.typeNameSuffixFilter),
        usedRefs |-> used]

\* extractUnwrappedType and extractUnwrappedType3: the type name returned and
\* usedRefs after the call
extractUnwrappedTypeOf(prefix, ref, unwrapField, definitions, cfg, used) ==
  LET refName == StripPrefix(ref, prefix) IN
  IF ~IsDefined(definitions, refName) THEN [name |-> Undefined, usedRefs |-> used]
  ELSE LET schema == definitions[refName[2]] IN
    IF HasProperty(schema, unwrapField)
    THEN LET fieldSchema == Property(schema, unwrapField) IN
      IF Has(fieldSchema, "ref")
      THEN [name |-> cleanTypeName(RefText(StripPrefix(fieldSchema.ref, prefix)),
                                   cfg.typeNameSuffixFilter),
            usedRefs |-> SetAdd(used, fieldSchema.ref)]
      ELSE IF Has(fieldSchema, "type") /\ fieldSchema.type = "array"
                /\ Has(fieldSchema, "items") /\ Has(fieldSchema.items, "ref")
      THEN [name |-> cleanTypeName(
                       RefText(StripPrefix(fieldSchema.items.ref, prefix)),
                       cfg.typeNameSuffixFilter) \o Chars_Brackets,
            usedRefs |-> SetAdd(used, fieldSchema.items.ref)]
      ELSE [name |-> schemaTypeToTsOf(prefix, fieldSchema), usedRefs |-> used]
    ELSE [name |-> cleanTypeName(RefText(refName), cfg.typeNameSuffixFilter),
          usedRefs |-> used]

extractUnwrappedType(ref, unwrapField, definitions, cfg, used) ==
  extractUnwrappedTypeOf(Prefix2, ref, unwrapField, definitions, cfg, used)

extractUnwrappedType3(ref, unwrapField, schemas, cfg, used) ==
  extractUnwrappedTypeOf(Prefix3, ref, unwrapField, schemas, cfg, used)

\* if (unwrapField): null and the empty string are falsy
Truthy(field) == field # Null /\ field # ""

\* the loop over responseSchema.allOf (parser.ts 339-357, 487-503): the
\* response type name and usedRefs after the items from i on
RECURSIVE ScanAllOf(_, _, _, _, _, _)
ScanAllOf(prefix, items, i, cfg, name, used) ==
  IF i > Len(items) THEN [name |-> name, usedRefs |-> used]
  ELSE
    LET item == items[i]
        unwrapField == cfg.unwrapResponseField
        used1 == IF Has(item, "ref") THEN SetAdd(used, item.ref) ELSE used
    IN IF Truthy(unwrapField) /\ HasProperty(item, unwrapField)
       THEN LET dataSchema == Property(item, unwrapField) IN
         IF Has(dataSchema, "ref")
         THEN ScanAllOf(prefix, items, i + 1, cfg,
                cleanTypeName(RefText(StripPrefix(dataSchema.ref, prefix)),
                              cfg.typeNameSuffixFilter),
                SetAdd(used1, dataSchema.ref))
         ELSE IF Has(dataSchema, "type")
         THEN ScanAllOf(prefix, items, i + 1, cfg,
                        schemaTypeToTsOf(prefix, dataSchema), used1)
         ELSE ScanAllOf(prefix, items, i + 1, cfg, name, used1)
       ELSE ScanAllOf(prefix, items, i + 1, cfg, name, used1)

\* the resolution of the success response's schema (parser.ts 333-388 and
\* 481-532): the response type name and usedRefs after it
ResolveResponse(prefix, responseSchema, cfg, used, definitions) ==
  LET unwrapField == cfg.unwrapResponseField IN
  IF Has(responseSchema, "allOf")
  THEN ScanAllOf(prefix, responseSchema.allOf, 1, cfg, Undefined, used)
  ELSE IF Has(responseSchema, "ref")
  THEN LET used1 == SetAdd(used, responseSchema.ref) IN
    IF Truthy(unwrapField)
    THEN extractUnwrappedTypeOf(prefix, responseSchema.ref, unwrapField,
                                definitions, cfg, used1)
    ELSE [name |-> cleanTypeName(RefText(StripPrefix(responseSchema.ref, prefix)),
                                 cfg.typeNameSuffixFilter),
          usedRefs |-> used1]
  ELSE IF Has(responseSchema, "properties") /\ Truthy(unwrapField)
  THEN IF ~HasProperty(responseSchema, unwrapField)
       THEN [name |-> Undefined, usedRefs |-> used]
       ELSE LET dataSchema == Property(responseSchema, unwrapField) IN
         IF Has(dataSchema, "ref")
         THEN [name |-> cleanTypeName(RefText(StripPrefix(dataSchema.ref, prefix)),
                                      cfg.typeNameSuffixFilter),
               usedRefs |-> SetAdd(used, dataSchema.ref)]
         ELSE IF Has(dataSchema, "type")
         THEN [name |-> schemaTypeToTsOf(prefix, dataSchema), usedRefs |-> used]
         ELSE [name |-> Undefined, usedRefs |-> used]
  ELSE [name |-> Undefined, usedRefs |-> used]

\* usedRefs.add for each reference of a list, in order
RECURSIVE AddAll(_, _)
AddAll(used, refs) ==
  IF refs = <<>> THEN used ELSE AddAll(SetAdd(used, Head(refs)), Tail(refs))

\* operation.tags?.[0] || 'default'
OriginalTag(operation) ==
  IF Has(operation, "tags") /\ operation.tags # <<>> /\ operation.tags[1] # <<>>
  THEN operation.tags[1]
  ELSE Chars_default

\* operation.responses['200'] || operation.responses['201']
SuccessResponse(operation) ==
  IF Has(operation.responses, "200") THEN operation.responses["200"]
  ELSE IF Has(operation.responses, "201") THEN operation.responses["201"]
  ELSE NoSchema

\* content['application/json'] || content['*/*']
JsonContent(content) ==
  IF Has(content, "application/json") THEN content["application/json"]
  ELSE IF Has(content, "*/*") THEN content["*/*"]
  ELSE NoSchema

\* parser.ts parseOperation (Swagger 2.0): the ParsedAPI and usedRefs after it
parseOperation(opPath, opMethod, operation, cfg, used, definitions, tagMapping) ==
  LET tag == tagToDirectoryName(applyTagMapping(OriginalTag(operation), tagMapping))
      cleaned == cleanPathPrefix(opPath, cfg.pathPrefixFilter)
      name == generateFunctionName(opMethod, cleaned)
      parameters == IF Has(operation, "parameters") THEN operation.parameters ELSE <<>>
      pathParams == SelectSeq(parameters, LAMBDA q : q.in = "path")
      queryParams == SelectSeq(parameters, LAMBDA q : q.in = "query")
      bodies == SelectSeq(parameters, LAMBDA q : q.in = "body" /\ Has(q, "schema"))
      refBodies == SelectSeq(bodies, LAMBDA q : Has(q.schema, "ref"))
      used1 == AddAll(used, [i \in 1..Len(refBodies) |-> refBodies[i].schema.ref])
      successResponse == SuccessResponse(operation)
      resolved ==
        IF Has(successResponse, "schema")
        THEN ResolveResponse(Prefix2, successResponse.schema, cfg, used1, definitions)
        ELSE [name |-> Undefined, usedRefs |-> used1]
  IN [ api |->
         [ path |-> opPath, cleanPath |-> cleaned, method |-> opMethod,
           tag |-> tag, functionName |-> name,
           paramsTypeName |->
             IF queryParams # <<>>
             THEN toPascalCase(name) \o <<"P","a","r","a","m","s">>
             ELSE Undefined,
           bodyTypeName |->
             IF refBodies # <<>>
             THEN cleanTypeName(
                    RefText(StripPrefix(refBodies[Len(refBodies)].schema.ref, Prefix2)),
                    cfg.typeNameSuffixFilter)
             ELSE Undefined,
           responseTypeName |-> resolved.name,
           pathParams |-> pathParams, queryParams |-> queryParams,
           bodySchema |->
             IF bodies # <<>> THEN bodies[Len(bodies)].schema ELSE NoSchema,
           responseSchema |->
             IF Has(successResponse, "schema") THEN successResponse.schema
             ELSE NoSchema ],
       usedRefs |-> resolved.usedRefs ]

\* the internal Parameter parseOpenAPI3Operation builds of an OpenAPI parameter
InternalParam(param) ==
  [ name |-> param.name, in |-> param.in,
    type |-> IF Has(param, "schema") /\ Has(param.schema, "type")
             THEN param.schema.type ELSE "undefined",
    schema |-> IF Has(param, "schema") THEN param.schema ELSE NoSchema ]

\* parser.ts parseOpenAPI3Operation: the ParsedAPI and usedRefs after it
parseOpenAPI3Operation(opPath, opMethod, operation, cfg, used, schemas, tagMapping) ==
  LET tag == tagToDirectoryName(applyTagMapping(OriginalTag(operation), tagMapping))
      cleaned == cleanPathPrefix(opPath, cfg.pathPrefixFilter)
      name == generateFunctionName(opMethod, cleaned)
      parameters ==
        IF Has(operation, "parameters")
        THEN [i \in 1..Len(operation.parameters) |->
                InternalParam(operation.parameters[i])]
        ELSE <<>>
      pathParams == SelectSeq(parameters, LAMBDA q : q.in = "path")
      queryParams == SelectSeq(parameters, LAMBDA q : q.in = "query")
      bodyContent ==
        IF Has(operation, "requestBody") /\ Has(operation.requestBody, "content")
        THEN JsonContent(operation.requestBody.content)
        ELSE NoSchema
      bodySchema ==
        IF Has(bodyContent, "schema") THEN bodyContent.schema ELSE NoSchema
      used1 == IF Has(bodySchema, "ref") THEN SetAdd(used, bodySchema.ref) ELSE used
      successResponse == SuccessResponse(operation)
      responseContent ==
        IF Has(successResponse, "content") THEN JsonContent(successResponse.content)
        ELSE NoSchema
      resolved ==
        IF Has(responseContent, "schema")
        THEN ResolveResponse(Prefix3, responseContent.schema, cfg, used1, schemas)
        ELSE [name |-> Undefined, usedRefs |-> used1]
  IN [ api |->
         [ path |-> opPath, cleanPath |-> cleaned, method |-> opMethod,
           tag |-> tag, functionName |-> name,
           paramsTypeName |->
             IF queryParams # <<>>
             THEN toPascalCase(name) \o <<"P","a","r","a","m","s">>
             ELSE Undefined,
           bodyTypeName |->
             IF Has(bodySchema, "ref")
             THEN cleanTypeName(RefText(StripPrefix(bodySchema.ref, Prefix3)),
                                cfg.typeNameSuffixFilter)
             ELSE Undefined,
           responseTypeName |-> resolved.name,
           pathParams |-> pathParams, queryParams |-> queryParams,
           bodySchema |-> bodySchema,
           responseSchema |->
             IF Has(responseContent, "schema") THEN responseContent.schema
             ELSE NoSchema ],
       usedRefs |-> resolved.usedRefs ]

\* a filter that consults the deny-list before the allow-list
shouldIncludeTag_denyFirst(originalTag, cfg) ==
  IF Len(cfg.excludeTags) > 0 /\ originalTag \in Range(cfg.excludeTags) THEN FALSE
  ELSE IF Len(cfg.includeTags) > 0 THEN originalTag \in Range(cfg.includeTags)
  ELSE TRUE

\* parser.ts shouldIncludeTag
shouldIncludeTag(originalTag, cfg) ==
  IF Len(cfg.includeTags) > 0 THEN originalTag \in Range(cfg.includeTags)
  ELSE IF Len(cfg.excludeTags) > 0 THEN originalTag \notin Range(cfg.excludeTags)
  ELSE TRUE

\* types.ts isOpenAPI3: 'openapi' in spec && spec.openapi.startsWith('3.')
isOpenAPI3(spec) == Has(spec, "openapi") /\ spec.openapi \in {"3.0.0", "3.1.0"}

\* spec.definitions || {} and spec.components?.schemas || {}
EmptyTable == <<>>
SchemaTable(spec) ==
  IF isOpenAPI3(spec)
  THEN IF Has(spec, "components") /\ Has(spec.components, "schemas")
       THEN spec.components.schemas ELSE EmptyTable
  ELSE IF Has(spec, "definitions") THEN spec.definitions ELSE EmptyTable

\* the prefix parseSwagger2 and parseOpenAPI3 remove from a reference
RefPrefix(spec) == IF isOpenAPI3(spec) THEN Prefix3 ELSE Prefix2

\* Map get-or-create, then push
MapPush(map, key, value) ==
  IF key \in DOMAIN map THEN [map EXCEPT ![key] = Append(@, value)]
  ELSE [k \in DOMAIN map \cup {key} |-> IF k = key THEN <<value>> ELSE map[k]]

(***************************************************************************)
(* The documents parseSwagger is given                                     *)
(***************************************************************************)
MaxOps == 2

Ref(prefix, name) == [ref |-> <<prefix, name>>]
Prim(type) == [type |-> type]
ArrayOf(schema) == [type |-> "array", items |-> schema]
Prop(name, schema) == [name |-> name, schema |-> schema]
Object(props) == [type |-> "object", properties |-> props]
CodeProp == Prop("code", Prim("integer"))

OtherPrefix(prefix) == IF prefix = Prefix2 THEN Prefix3 ELSE Prefix2

\* definitions (Swagger 2.0) or components.schemas (OpenAPI 3.0): an
\* envelope for every shape of the data field, a self-referential schema, a
\* mutually referential pair, dangling and foreign references
DefinitionTable(prefix) ==
  ("User" :> Object(<<Prop("id", Prim("integer")), Prop("name", Prim("string"))>>))
    @@ ("model.OrderResponse" :>
          Object(<<Prop("id", Prim("integer")), Prop("owner", Ref(prefix, "User"))>>))
    @@ ("Env" :> Object(<<CodeProp, Prop("data", Ref(prefix, "User"))>>))
    @@ ("EnvList" :>
          Object(<<CodeProp,
                   Prop("data", ArrayOf(Ref(prefix, "model.OrderResponse")))>>))
    @@ ("EnvText" :> Object(<<CodeProp, Prop("data", Prim("string"))>>))
    @@ ("EnvBare" :> Object(<<CodeProp, Prop("message", Prim("string"))>>))
    @@ ("Node" :>
          Object(<<Prop("value", Prim("boolean")),
                   Prop("next", Ref(prefix, "Node"))>>))
    @@ ("Ping" :> Object(<<Prop("pong", Ref(prefix, "Pong"))>>))
    @@ ("Pong" :>
          [allOf |-> <<Ref(prefix, "Ping"), Object(<<Prop("n", Prim("number"))>>)>>])
    @@ ("Bag" :>
          [ type |-> "object",
            properties |->
              <<Prop("other", Ref(OtherPrefix(prefix), "User")),
                Prop("open", [type |-> "object",
                              additionalProperties |-> [boolean |-> TRUE]])>>,
            additionalProperties |-> Ref(prefix, "Ghost") ])
    @@ ("Kind" :> Prim("string"))

Chars_post == <<"p","o","s","t">>
Chars_put == <<"p","u","t">>
Chars_delete == <<"d","e","l","e","t","e">>
Chars_internal == <<"i","n","t","e","r","n","a","l">>

Lit(text) == [kind |-> "lit", text |-> text]
Brace(text) == [kind |-> "brace", text |-> text]
Colon(text) == [kind |-> "colon", text |-> text]

\* the operations a document may hold, in the order parseSwagger visits them
\* (paths in document order, verbs in the order get, post, put, delete)
OperationShapes(prefix) ==
  << [ path |-> Chars_apiV1 \o RenderPath(<<Lit(Chars_orders), Brace(Chars_id)>>),
       method |-> Chars_get, tags |-> <<Chars_orders>>,
       pathParams |-> <<"id">>, query |-> <<>>, body |-> NoSchema,
       status |-> "200", response |-> Ref(prefix, "Env") ],
     [ path |-> Chars_apiV1 \o RenderPath(<<Lit(Chars_orders), Brace(Chars_id)>>),
       method |-> Chars_delete, tags |-> <<Chars_orders>>,
       pathParams |-> <<"id">>, query |-> <<>>, body |-> NoSchema,
       status |-> "200", response |-> Ref(prefix, "model.OrderResponse") ],
     [ path |-> Chars_api \o RenderPath(<<Lit(Chars_orders)>>),
       method |-> Chars_get, tags |-> <<Chars_orders>>,
       pathParams |-> <<>>, query |-> <<Prop("page", Prim("integer"))>>,
       body |-> NoSchema,
       status |-> "200", response |-> Ref(prefix, "EnvList") ],
     [ path |-> Chars_api \o RenderPath(<<Lit(Chars_orders)>>),
       method |-> Chars_post, tags |-> <<Chars_orders>>,
       pathParams |-> <<>>, query |-> <<>>,
       body |-> Ref(prefix, "model.OrderResponse"),
       status |-> "201",
       response |->
         [allOf |-> <<Ref(prefix, "EnvBare"),
                      Object(<<Prop("data", Ref(prefix, "User"))>>)>>] ],
     [ path |-> RenderPath(<<Lit(Chars_items)>>),
       method |-> Chars_get, tags |-> <<Chars_posDevices>>,
       pathParams |-> <<>>, query |-> <<>>, body |-> NoSchema,
       status |-> "200", response |-> ArrayOf(Ref(prefix, "User")) ],
     [ path |-> RenderPath(<<Lit(Chars_items)>>),
       method |-> Chars_post, tags |-> <<Chars_posDevices>>,
       pathParams |-> <<>>, query |-> <<>>, body |-> NoSchema,
       status |-> "200",
       response |->
         [allOf |-> <<Ref(prefix, "Env"),
                      Object(<<Prop("data",
                                    ArrayOf(Ref(prefix, "model.OrderResponse")))>>)>>] ],
     [ path |-> RenderPath(<<Lit(Chars_items), Brace(Chars_id)>>),
       method |-> Chars_get, tags |-> <<>>,
       pathParams |-> <<"id">>, query |-> <<>>, body |-> NoSchema,
       status |-> "200", response |-> Ref(prefix, "Node") ],
     [ path |-> RenderPath(<<Lit(Chars_posDevices)>>),
       method |-> Chars_get, tags |-> <<Chars_posDevices>>,
       pathParams |-> <<>>, query |-> <<>>, body |-> NoSchema,
       status |-> "200", response |-> Ref(prefix, "Ping") ],
     [ path |-> RenderPath(<<Lit(Chars_posDevices)>>),
       method |-> Chars_put, tags |-> <<Chars_posDevices>>,
       pathParams |-> <<>>, query |-> <<>>,
       body |-> Object(<<Prop("owner", Ref(prefix, "Bag"))>>),
       status |-> "200",
       response |-> Object(<<CodeProp, Prop("data", Ref(prefix, "User"))>>) ],
     [ path |-> RenderPath(<<Lit(Chars_posDevices)>>),
       method |-> Chars_delete, tags |-> <<Chars_posDevices>>,
       pathParams |-> <<>>, query |-> <<>>, body |-> NoSchema,
       status |-> "204", response |-> NoSchema ],
     [ path |-> RenderPath(<<Lit(Chars_orders), Brace(Chars_id), Lit(Chars_items)>>),
       method |-> Chars_get, tags |-> <<Chars_orders>>,
       pathParams |-> <<"id">>, query |-> <<Prop("kind", Ref(prefix, "Kind"))>>,
       body |-> NoSchema,
       status |-> "200", response |-> Ref(prefix, "EnvText") ],
     [ path |-> RenderPath(<<Lit(Chars_items), Colon(Chars_itemId)>>),
       method |-> Chars_get, tags |-> <<Chars_internal>>,
       pathParams |-> <<>>, query |-> <<>>, body |-> NoSchema,
       status |-> "200", response |-> Ref(prefix, "Ghost") ],
     [ path |-> RenderPath(<<Lit(Chars_items), Brace(Chars_id)>>),
       method |-> Chars_put, tags |-> <<Chars_orders>>,
       pathParams |-> <<"id">>, query |-> <<>>, body |-> NoSchema,
       status |-> "200",
       response |->
         [allOf |-> <<Object(<<CodeProp, Prop("data", Ref(prefix, "User"))>>),
                      Object(<<Prop("data", Ref(prefix, "model.OrderResponse"))>>)>>] ] >>

\* the operation object of a shape in Swagger 2.0: body and query parameters in
\* the parameter list, the schema under the response
Operation2(shape) ==
  [ tags |-> shape.tags,
    parameters |->
      [i \in 1..Len(shape.pathParams) |->
         [name |-> shape.pathParams[i], in |-> "path", type |-> "string"]]
      \o [i \in 1..Len(shape.query) |->
            [name |-> shape.query[i].name, in |-> "query",
             type |-> IF Has(shape.query[i].schema, "type")
                      THEN shape.query[i].schema.type ELSE "string"]]
      \o (IF Has(shape.body, "absent") THEN <<>>
          ELSE <<[name |-> "body", in |-> "body", schema |-> shape.body]>>),
    responses |->
      IF Has(shape.response, "absent")
      THEN (shape.status :> [description |-> "done"])
      ELSE (shape.status :> [schema |-> shape.response]) ]

\* the operation object of a shape in OpenAPI 3.0: schemas under the
\* parameters, the body under requestBody, the response under content
Operation3(shape) ==
  LET base ==
        [ tags |-> shape.tags,
          parameters |->
            [i \in 1..Len(shape.pathParams) |->
               [name |-> shape.pathParams[i], in |-> "path",
                schema |-> Prim("string")]]
            \o [i \in 1..Len(shape.query) |->
                  [name |-> shape.query[i].name, in |-> "query",
                   schema |-> shape.query[i].schema]],
          responses |->
            IF Has(shape.response, "absent")
            THEN (shape.status :> [description |-> "done"])
            ELSE (shape.status :>
                    [content |->
                       ("application/json" :> [schema |-> shape.response])]) ]
  IN IF Has(shape.body, "absent") THEN base
     ELSE base @@ [requestBody |->
                     [content |-> ("*/*" :> [schema |-> shape.body])]]

\* the members of a set of indices, ascending
RECURSIVE Ascending(_)
Ascending(indices) ==
  IF indices = {} THEN <<>>
  ELSE LET least == CHOOSE i \in indices : \A j \in indices : i <= j
       IN <<least>> \o Ascending(indices \ {least})

\* the (path, verb, operation) entries of a document holding some of the shapes
Entries(dialect, chosen) ==
  LET shapes == OperationShapes(IF dialect = 3 THEN Prefix3 ELSE Prefix2)
      order == Ascending(chosen)
  IN [k \in 1..Len(order) |->
        [ path |-> shapes[order[k]].path, method |-> shapes[order[k]].method,
          operation |-> IF dialect = 3 THEN Operation3(shapes[order[k]])
                        ELSE Operation2(shapes[order[k]]) ]]

ShapeChoices ==
  {c \in SUBSET (1..Len(OperationShapes(Prefix2))) :
     Cardinality(c) \in 1..MaxOps}

\* Swagger 2.0 documents with and (for one operation) without definitions, and
\* OpenAPI 3.0 documents
Documents ==
  {[swagger |-> "2.0", operations |-> Entries(2, c),
    definitions |-> DefinitionTable(Prefix2)] : c \in ShapeChoices}
    \cup {[swagger |-> "2.0", operations |-> Entries(2, c)] :
            c \in {d \in ShapeChoices : Cardinality(d) = 1}}
    \cup {[openapi |-> "3.0.0", operations |-> Entries(3, c),
           components |-> [schemas |-> DefinitionTable(Prefix3)]] :
            c \in ShapeChoices}

\* package.json for the parser: the defaults, unwrapping switched off, a tag
\* excluded, the operations without a tag excluded, a tag allowed, and an
\* allow-list together with a deny-list
ParsePackageJsons ==
  {[exists |-> TRUE, parses |-> TRUE, userConfig |-> <<>>],
   [exists |-> TRUE, parses |-> TRUE,
    userConfig |-> [unwrapResponseField |-> Null]],
   [exists |-> TRUE, parses |-> TRUE,
    userConfig |-> [excludeTags |-> <<Chars_internal>>]],
   [exists |-> TRUE, parses |-> TRUE,
    userConfig |-> [excludeTags |-> <<Chars_default>>]],
   [exists |-> TRUE, parses |-> TRUE,
    userConfig |-> [includeTags |-> <<Chars_orders>>]],
   [exists |-> TRUE, parses |-> TRUE,
    userConfig |-> [includeTags |-> <<Chars_default, Chars_posDevices>>,
                    excludeTags |-> <<Chars_posDevices, Chars_orders>>]]}

(***************************************************************************)
(* parseSwagger2 / parseOpenAPI3, one loop iteration per step              *)
(***************************************************************************)
\* the traversal step that never skips a reference it has processed
Drain_revisits(refs, processed, table, prefix) ==
  LET ref == refs[Len(refs)]
      rest == SubSeq(refs, 1, Len(refs) - 1)
      refName == StripPrefix(ref, prefix)
  IN [ refsToProcess |->
         IF IsDefined(table, refName)
         THEN rest \o collectRefs(table[refName[2]]) ELSE rest,
       processedRefs |-> SetAdd(processed, ref) ]

\* one iteration of the while loop (parser.ts 165-176, 245-256): the work-list
\* and the visited set after it
Drain(refs, processed, table, prefix) ==
  LET ref == refs[Len(refs)]
      rest == SubSeq(refs, 1, Len(refs) - 1)
      refName == StripPrefix(ref, prefix)
  IN IF ref \in Range(processed)
     THEN [refsToProcess |-> rest, processedRefs |-> processed]
     ELSE [ refsToProcess |->
              IF IsDefined(table, refName)
              THEN rest \o collectRefs(table[refName[2]]) ELSE rest,
            processedRefs |-> Append(processed, ref) ]

\* if (spec.definitions) / if (schemas)
HasTypeTable(spec) == isOpenAPI3(spec) \/ Has(spec, "definitions")

InitParse ==
  /\ RunIdle /\ EmitIdle /\ LoadIdle
  /\ pc = "parse"
  /\ packageJson \in ParsePackageJsons
  /\ config = loadConfig(packageJson)
  /\ doc \in Documents
  /\ opIndex = 0
  /\ usedRefs = <<>>
  /\ parsedApis = <<>>
  /\ refsToProcess = <<>>
  /\ processedRefs = <<>>
  /\ emitIndex = 0
  /\ types = <<>>
  /\ NameIdle /\ PathIdle /\ MergeIdle /\ DiffIdle /\ CheckIdle

\* one iteration of the loops over paths and verbs (parser.ts 135-157, 215-237)
ParseOperationStep ==
  /\ pc = "parse"
  /\ opIndex < Len(doc.operations)
  /\ LET entry == doc.operations[opIndex + 1]
         tagMapping == loadTagMapping(EmptyTable, config.tagMapping)
     IN IF ~shouldIncludeTag(OriginalTag(entry.operation), config)
        THEN UNCHANGED <<usedRefs, parsedApis>>
        ELSE LET parsed ==
                   IF isOpenAPI3(doc)
                   THEN parseOpenAPI3Operation(entry.path, entry.method,
                          entry.operation, config, usedRefs, SchemaTable(doc),
                          tagMapping)
                   ELSE parseOperation(entry.path, entry.method,
                          entry.operation, config, usedRefs, SchemaTable(doc),
                          tagMapping)
             IN /\ usedRefs' = parsed.usedRefs
                /\ parsedApis' = MapPush(parsedApis, parsed.api.tag, parsed.api)
  /\ opIndex' = opIndex + 1
  /\ UNCHANGED <<pc, doc, refsToProcess, processedRefs, emitIndex, types,
                 cfgVars, restOfParse>>

\* parser.ts 160-162, 240-242: refsToProcess = [...usedRefs]
BeginTypes ==
  /\ pc = "parse"
  /\ opIndex = Len(doc.operations)
  /\ refsToProcess' = IF HasTypeTable(doc) THEN usedRefs ELSE <<>>
  /\ pc' = "types"
  /\ UNCHANGED <<doc, opIndex, usedRefs, parsedApis, processedRefs, emitIndex,
                 types, cfgVars, restOfParse>>

\* one iteration of while (refsToProcess.length > 0)
DrainStep ==
  /\ pc = "types"
  /\ refsToProcess # <<>>
  /\ LET next == Drain(refsToProcess, processedRefs, SchemaTable(doc), RefPrefix(doc))
     IN /\ refsToProcess' = next.refsToProcess
        /\ processedRefs' = next.processedRefs
  /\ UNCHANGED <<pc, doc, opIndex, usedRefs, parsedApis, emitIndex, types,
                 cfgVars, restOfParse>>

\* one iteration of for (const ref of processedRefs) (parser.ts 179-192, 259-272)
EmitStep ==
  /\ pc = "types"
  /\ refsToProcess = <<>>
  /\ emitIndex < Len(processedRefs)
  /\ LET refName == StripPrefix(processedRefs[emitIndex + 1], RefPrefix(doc))
     IN types' =
          IF IsDefined(SchemaTable(doc), refName)
          THEN MapPush(types, getModuleFromTypeName(TypeNameChars[refName[2]]),
                       parseType(refName[2], SchemaTable(doc)[refName[2]], config))
          ELSE types
  /\ emitIndex' = emitIndex + 1
  /\ UNCHANGED <<pc, doc, opIndex, usedRefs, parsedApis, refsToProcess,
                 processedRefs, cfgVars, restOfParse>>

\* return { apis, types }
Return ==
  /\ pc = "types"
  /\ refsToProcess = <<>>
  /\ emitIndex = Len(processedRefs)
  /\ pc' = "done"
  /\ UNCHANGED <<parseVars, cfgVars, restOfParse>>

NextParse == ParseOperationStep \/ BeginTypes \/ DrainStep \/ EmitStep \/ Return

SpecParse == InitParse /\ [][NextParse]_vars

\* the steps ParseOperationStep and EmitStep, told by the loop counter they
\* advance: each is enabled exactly when its step is, and every step of
\* NextParse from such a state is that step
OperationLoop ==
  pc = "parse" /\ opIndex < Len(doc.operations) /\ opIndex' = opIndex + 1
EmitLoop ==
  /\ pc = "types" /\ refsToProcess = <<>> /\ emitIndex < Len(processedRefs)
  /\ emitIndex' = emitIndex + 1

\* parseSwagger runs on: a loop iteration that can be taken is not put off
\* for ever
SpecParseFair ==
  /\ SpecParse
  /\ WF_opIndex(OperationLoop) /\ WF_vars(BeginTypes) /\ WF_vars(DrainStep)
  /\ WF_emitIndex(EmitLoop) /\ WF_vars(Return)

\* the ParsedAPIs and ParsedTypes of parseSwagger's two maps
AllApis == UNION {Range(parsedApis[t]) : t \in DOMAIN parsedApis}
TypeEntries ==
  {<<m, i>> : m \in DOMAIN types, i \in 1..10} \cap
    UNION {{<<m, i>> : i \in 1..Len(types[m])} : m \in DOMAIN types}
EmittedNames == {types[e[1]][e[2]].originalName : e \in TypeEntries}

\* the references of the visited set that name a schema of the table
ProcessedDefined ==
  {r \in Range(processedRefs) :
     IsDefined(SchemaTable(doc), StripPrefix(r, RefPrefix(doc)))}

\* C4: the work-list traversal of parseSwagger ends for every table of
\* definitions, self-referential and mutually referential schemas included,
\* and when it has ended every processed reference that has a definition has
\* exactly one entry in the returned types (both schemas of a pair that
\* reference each other, once each).
C4_TraversalEnds ==
  /\ <>(pc = "done")
  /\ [](pc = "done" =>
          \A r \in ProcessedDefined :
            Cardinality({e \in TypeEntries :
                           types[e[1]][e[2]].originalName = r[2]}) = 1)

\* C4 witness: parseSwagger has returned for a document that reaches the pair
\* Ping and Pong, and the types hold each of them
C4_Witness ==
  /\ pc = "done"
  /\ {<<RefPrefix(doc), "Ping">>, <<RefPrefix(doc), "Pong">>} \subseteq Range(processedRefs)
  /\ {"Ping", "Pong"} \subseteq EmittedNames

\* the references a schema holds, directly or nested
RefsIn(schema) == Range(collectRefs(schema))

\* the references in the body, response and parameter schemas of an operation
OperationRefs(api) ==
  RefsIn(api.bodySchema) \cup RefsIn(api.responseSchema)
    \cup UNION {IF Has(api.queryParams[i], "schema")
                THEN RefsIn(api.queryParams[i].schema) ELSE {} :
                  i \in 1..Len(api.queryParams)}
    \cup UNION {IF Has(api.pathParams[i], "schema")
                THEN RefsIn(api.pathParams[i].schema) ELSE {} :
                  i \in 1..Len(api.pathParams)}

DefinedIn(spec, ref) == IsDefined(SchemaTable(spec), StripPrefix(ref, RefPrefix(spec)))

\* the references reachable from a set of references through the schemas the
\* table defines
RECURSIVE ReachableFrom(_)
ReachableFrom(refs) ==
  LET more ==
        refs \cup UNION {RefsIn(SchemaTable(doc)[r[2]]) :
                           r \in {q \in refs : DefinedIn(doc, q)}}
  IN IF more = refs THEN refs ELSE ReachableFrom(more)

ReachableTypeNames ==
  {r[2] : r \in {q \in ReachableFrom(UNION {OperationRefs(a) : a \in AllApis}) :
                   DefinedIn(doc, q)}}

\* C5: the types parseSwagger returns are exactly the defined types reachable
\* (through properties, items, allOf members and object-valued
\* additionalProperties) from the body, response and parameter schemas of the
\* operations it emitted.
C5_ExactlyReachable ==
  pc = "done" => EmittedNames = ReachableTypeNames

\* no type is returned that the emitted operations do not reach
C5_OnlyReachable ==
  pc = "done" => EmittedNames \subseteq ReachableTypeNames

\* the cleaned display names of the model's type names: the part after the
\* last dot, without the suffix Request or Response
ExpectedCleanName ==
  [n \in DOMAIN TypeNameChars |->
     IF n = "model.OrderResponse" THEN Chars_Order
     ELSE IF n = "user.UserResponse" THEN Chars_User ELSE TypeNameChars[n]]

\* the primitive mapping
PrimitiveText ==
  [t \in {"string", "integer", "number", "boolean"} |->
     IF t = "string" THEN Chars_string
     ELSE IF t = "boolean" THEN Chars_boolean ELSE Chars_number]

\* the response of the operation is one reference, to a schema of the table
RespondsWithEnvelope(api) ==
  /\ Has(api.responseSchema, "ref") /\ ~Has(api.responseSchema, "allOf")
  /\ DefinedIn(doc, api.responseSchema.ref)

\* C7: with an unwrap field configured, an operation whose success response
\* references an envelope gets the type of the envelope's unwrap field: the
\* cleaned name of a referenced type, <Item>[] for an array of a referenced
\* item, the primitive mapping of an inline primitive; the envelope's own
\* cleaned name when the envelope has no such field.  The referenced type of
\* the field is in usedRefs, and is among the returned types when defined.
C7_Unwrap ==
  \A api \in AllApis :
    (Truthy(config.unwrapResponseField) /\ RespondsWithEnvelope(api)) =>
      LET envelope == SchemaTable(doc)[api.responseSchema.ref[2]]
          field == config.unwrapResponseField
      IN IF ~HasProperty(envelope, field)
         THEN api.responseTypeName = ExpectedCleanName[api.responseSchema.ref[2]]
         ELSE LET fieldSchema == Property(envelope, field) IN
           /\ Has(fieldSchema, "ref") =>
                /\ api.responseTypeName = ExpectedCleanName[fieldSchema.ref[2]]
                /\ fieldSchema.ref \in Range(usedRefs)
                /\ (pc = "done" /\ DefinedIn(doc, fieldSchema.ref))
                     => fieldSchema.ref[2] \in EmittedNames
           /\ (Has(fieldSchema, "items") /\ Has(fieldSchema.items, "ref")) =>
                /\ api.responseTypeName =
                     ExpectedCleanName[fieldSchema.items.ref[2]] \o <<"[", "]">>
                /\ fieldSchema.items.ref \in Range(usedRefs)
                /\ (pc = "done" /\ DefinedIn(doc, fieldSchema.items.ref))
                     => fieldSchema.items.ref[2] \in EmittedNames
           /\ (Has(fieldSchema, "type") /\ fieldSchema.type \in DOMAIN PrimitiveText) =>
                api.responseTypeName = PrimitiveText[fieldSchema.type]

\* C7 witness: parseSwagger has returned for a document with an operation
\* answering Env (data: User) and one answering EnvList (data: Order array)
C7_Witness ==
  /\ pc = "done"
  /\ config.unwrapResponseField = "data"
  /\ \E a, b \in AllApis :
       /\ a.responseSchema = Ref(RefPrefix(doc), "Env")
       /\ a.responseTypeName = Chars_User
       /\ b.responseSchema = Ref(RefPrefix(doc), "EnvList")
       /\ b.responseTypeName = Chars_Order \o <<"[", "]">>
       /\ {"User", "model.OrderResponse"} \subseteq EmittedNames

\* C8: with unwrapResponseField null, loadConfig keeps the null, and every
\* operation whose success response has a schema keeps the envelope as its
\* response type: the cleaned name of a referenced envelope, and some type for
\* an allOf composition or inline properties.
C8_DisabledKeepsEnvelope ==
  /\ ("unwrapResponseField" \in DOMAIN packageJson.userConfig
        /\ packageJson.userConfig.unwrapResponseField = Null)
       => config.unwrapResponseField = Null
  /\ config.unwrapResponseField = Null =>
       \A api \in AllApis :
         /\ (Has(api.responseSchema, "ref") /\ ~Has(api.responseSchema, "allOf"))
              => api.responseTypeName = ExpectedCleanName[api.responseSchema.ref[2]]
         /\ (Has(api.responseSchema, "allOf") \/ Has(api.responseSchema, "properties"))
              => api.responseTypeName # Undefined

\* with unwrapResponseField null, loadConfig keeps the null and a response
\* that is one reference keeps the cleaned name of the referenced type
C8_DisabledKeepsReference ==
  /\ ("unwrapResponseField" \in DOMAIN packageJson.userConfig
        /\ packageJson.userConfig.unwrapResponseField = Null)
       => config.unwrapResponseField = Null
  /\ config.unwrapResponseField = Null =>
       \A api \in AllApis :
         (Has(api.responseSchema, "ref") /\ ~Has(api.responseSchema, "allOf"))
           => api.responseTypeName = ExpectedCleanName[api.responseSchema.ref[2]]

(***************************************************************************)
(* The type generator, on tokens                                           *)
(*                                                                         *)
(* The text of a type file is a sequence of tokens: a word (a maximal run  *)
(* of the characters \w matches), a blank, a line break, or one            *)
(* punctuation mark.  Names of types and properties are words; Words gives *)
(* the characters of each.                                                 *)
(***************************************************************************)
Blank == " "
LineBreak == "\n"

\* what \s matches
WhiteSpace == {Blank, LineBreak}

Punctuation ==
  {"{", "}", ":", ";", "?", "[", "]", "<", ">", ",", "&", "|", "=", "'",
   "*", "/**", "*/", "-", "(", ")", ".", "=>", "$", "/"}

\* what \w+ matches
IsWord(token) == token \notin WhiteSpace \cup Punctuation

Chars_name == <<"n","a","m","e">>
Chars_age == <<"a","g","e">>
Chars_address == <<"a","d","d","r","e","s","s">>
Chars_city == <<"c","i","t","y">>
Chars_owner == <<"o","w","n","e","r">>

Words ==
  ("User" :> Chars_User) @@ ("Order" :> Chars_Order)
    @@ ("id" :> Chars_id) @@ ("name" :> Chars_name) @@ ("age" :> Chars_age)
    @@ ("address" :> Chars_address) @@ ("city" :> Chars_city)
    @@ ("owner" :> Chars_owner)
    @@ ("Profile" :> Chars_Profile) @@ ("Role" :> Chars_Role)
    @@ ("Kind" :> Chars_Kind)
    @@ ("idx" :> <<"i","d","x">>) @@ ("page" :> <<"p","a","g","e">>)
    @@ ("status" :> <<"s","t","a","t","u","s">>)
    @@ ("token" :> <<"t","o","k","e","n">>)
    @@ ("-" :> <<"-">>) @@ ("" :> <<>>) @@ ("itemId" :> Chars_itemId)
    @@ ("GetUsersParams" :>
          <<"G","e","t">> \o Chars_User \o <<"s","P","a","r","a","m","s">>)

\* the word with the given characters
WordOf(chars) == CHOOSE w \in DOMAIN Words : Words[w] = chars

\* Array.prototype.join
RECURSIVE Join(_, _)
Join(parts, sep) ==
  IF parts = <<>> THEN <<>>
  ELSE IF Len(parts) = 1 THEN parts[1]
  ELSE parts[1] \o sep \o Join(Tail(parts), sep)

\* /^[a-zA-Z_$][a-zA-Z0-9_$]*$/.test(name)
isValidIdentifier(name) ==
  LET chars == Words[name]
      start == Range(LowerAlpha) \cup Range(UpperAlpha) \cup {"_", "$"}
  IN /\ chars # <<>>
     /\ chars[1] \in start
     /\ \A i \in 2..Len(chars) : chars[i] \in start \cup DigitChars

formatPropertyName(name) ==
  IF isValidIdentifier(name) THEN <<name>> ELSE <<"'", name, "'">>

\* typeGenerator.ts extractRefName
extractRefName(ref) ==
  IF ref[1] = Prefix3 THEN <<"", ref[2]>> ELSE StripPrefix(ref, Prefix2)

\* an enum value: a string is quoted, anything else is printed as it is
EnumText(v) == IF Has(v, "string") THEN <<"'", v.string, "'">> ELSE <<v.number>>

\* typeGenerator.ts schemaToTsType
RECURSIVE schemaToTsType(_, _)
schemaToTsType(schema, cfg) ==
  IF Has(schema, "ref")
  THEN <<WordOf(cleanTypeName(RefText(extractRefName(schema.ref)),
                              cfg.typeNameSuffixFilter))>>
  ELSE IF Has(schema, "allOf")
  THEN Join([i \in 1..Len(schema.allOf) |-> schemaToTsType(schema.allOf[i], cfg)],
            <<Blank, "&", Blank>>)
  ELSE IF Has(schema, "enum")
  THEN Join([i \in 1..Len(schema.enum) |-> EnumText(schema.enum[i])],
            <<Blank, "|", Blank>>)
  ELSE IF ~Has(schema, "type") THEN <<"unknown">>
  ELSE CASE schema.type = "string" -> <<"string">>
         [] schema.type \in {"integer", "number"} -> <<"number">>
         [] schema.type = "boolean" -> <<"boolean">>
         [] schema.type = "array" ->
              IF Has(schema, "items")
              THEN schemaToTsType(schema.items, cfg) \o <<"[", "]">>
              ELSE <<"unknown", "[", "]">>
         [] schema.type = "object" ->
              IF Has(schema, "properties")
              THEN LET required ==
                         IF Has(schema, "required") THEN Range(schema.required)
                         ELSE {}
                       prop(p) ==
                         <<p.name>>
                           \o (IF p.name \in required THEN <<>> ELSE <<"?">>)
                           \o <<":", Blank>> \o schemaToTsType(p.schema, cfg)
                       props ==
                         Join([i \in 1..Len(schema.properties) |->
                                 prop(schema.properties[i])],
                              <<";", Blank>>)
                   IN <<"{", Blank>> \o props \o <<Blank, "}">>
              ELSE IF Has(schema, "additionalProperties")
                      /\ ~Has(schema.additionalProperties, "boolean")
              THEN <<"Record", "<", "string", ",", Blank>>
                     \o schemaToTsType(schema.additionalProperties, cfg)
                     \o <<">">>
              ELSE <<"Record", "<", "string", ",", Blank, "unknown", ">">>
         [] OTHER -> <<"unknown">>

\* a description comment
DescriptionComment(schema) == <<"/**", Blank>> \o schema.description \o <<Blank, "*/">>

\* typeGenerator.ts generateProperty
generateProperty(name, schema, required, cfg) ==
  (IF Has(schema, "description")
   THEN DescriptionComment(schema) \o <<LineBreak, Blank, Blank>>
   ELSE <<>>)
    \o formatPropertyName(name)
    \o (IF required THEN <<>> ELSE <<"?">>)
    \o <<":", Blank>> \o schemaToTsType(schema, cfg)

\* config.excludeFields.includes(propName)
IsExcluded(name, cfg) == Words[name] \in Range(cfg.excludeFields)

\* the property lines of an interface body
PropertyLines(props, required, cfg) ==
  LET kept == SelectSeq(props, LAMBDA p : ~IsExcluded(p.name, cfg))
  IN [i \in 1..Len(kept) |->
        <<Blank, Blank>>
          \o generateProperty(kept[i].name, kept[i].schema,
                              kept[i].name \in required, cfg)]

\* Object.assign(mergedProps, item.properties): a key keeps its first place
\* and takes its last value
RECURSIVE AssignAll(_, _)
AssignAll(merged, props) ==
  IF props = <<>> THEN merged
  ELSE LET p == Head(props)
           next ==
             IF \E i \in 1..Len(merged) : merged[i].name = p.name
             THEN [i \in 1..Len(merged) |->
                     IF merged[i].name = p.name THEN p ELSE merged[i]]
             ELSE Append(merged, p)
       IN AssignAll(next, Tail(props))

\* the members of an allOf that are references / carry properties / required
RECURSIVE MergeAllOf(_, _, _)
MergeAllOf(items, acc, cfg) ==
  IF items = <<>> THEN acc
  ELSE LET item == Head(items)
           withRef ==
             IF Has(item, "ref")
             THEN [acc EXCEPT !.extendsTypes =
                     Append(@, <<WordOf(cleanTypeName(
                                   RefText(extractRefName(item.ref)),
                                   cfg.typeNameSuffixFilter))>>)]
             ELSE acc
           withProps ==
             IF Has(item, "properties")
             THEN [withRef EXCEPT !.mergedProps = AssignAll(@, item.properties)]
             ELSE withRef
           withRequired ==
             IF Has(item, "required")
             THEN [withProps EXCEPT !.mergedRequired = @ \cup Range(item.required)]
             ELSE withProps
       IN MergeAllOf(Tail(items), withRequired, cfg)

\* typeGenerator.ts generateTypeDefinition
generateTypeDefinition(name, schema, cfg) ==
  LET comment ==
        IF Has(schema, "description") THEN <<DescriptionComment(schema)>> ELSE <<>>
      alias(text) == <<<<"export", Blank, "type", Blank, name, Blank, "=", Blank>> \o text>>
      lines ==
        IF Has(schema, "allOf")
        THEN LET m == MergeAllOf(schema.allOf,
                                 [extendsTypes |-> <<>>, mergedProps |-> <<>>,
                                  mergedRequired |-> {}], cfg)
             IN IF m.extendsTypes # <<>> /\ m.mergedProps = <<>>
                THEN alias(Join(m.extendsTypes, <<Blank, "&", Blank>>))
                ELSE <<<<"export", Blank, "interface", Blank, name>>
                         \o (IF m.extendsTypes # <<>>
                             THEN <<Blank, "extends", Blank>>
                                    \o Join(m.extendsTypes, <<",", Blank>>)
                             ELSE <<>>)
                         \o <<Blank, "{">>>>
                       \o PropertyLines(m.mergedProps, m.mergedRequired, cfg)
                       \o <<<<"}">>>>
        ELSE IF Has(schema, "enum")
        THEN alias(Join([i \in 1..Len(schema.enum) |-> EnumText(schema.enum[i])],
                        <<Blank, "|", Blank>>))
        ELSE IF (Has(schema, "type") /\ schema.type = "object")
                  \/ Has(schema, "properties")
        THEN <<<<"export", Blank, "interface", Blank, name, Blank, "{">>>>
               \o (IF Has(schema, "properties")
                   THEN PropertyLines(schema.properties,
                                      IF Has(schema, "required")
                                      THEN Range(schema.required) ELSE {},
                                      cfg)
                   ELSE <<>>)
               \o (IF ~Has(schema, "additionalProperties") THEN <<>>
                   ELSE <<<<Blank, Blank, "[", "key", ":", Blank, "string", "]", ":",
                            Blank>>
                            \o (IF Has(schema.additionalProperties, "boolean")
                                THEN <<"unknown">>
                                ELSE schemaToTsType(schema.additionalProperties, cfg))>>)
               \o <<<<"}">>>>
        ELSE alias(schemaToTsType(schema, cfg))
  IN Join(comment \o lines, <<LineBreak>>)

\* the first ParsedType with each name (typeMap of generateTypesFile)
UniqueByName(list) ==
  LET firstAt(i) == \A j \in 1..(i - 1) : list[j].name # list[i].name
      RECURSIVE keep(_)
      keep(i) ==
        IF i > Len(list) THEN <<>>
        ELSE (IF firstAt(i) THEN <<list[i]>> ELSE <<>>) \o keep(i + 1)
  IN keep(1)

\* typeGenerator.ts generateTypesFile for a module whose operations have no
\* query parameters: the banner comment (its wording has no colon and no
\* brace), then every type definition followed by an empty line
TypesFileText(list, cfg) ==
  LET unique == UniqueByName(list)
      banner ==
        <<<<"/**">>, <<Blank, "*", Blank, "generated">>, <<Blank, "*/">>, <<>>>>
      body ==
        Flatten([i \in 1..Len(unique) |->
                   <<generateTypeDefinition(unique[i].name, unique[i].schema, cfg),
                     <<>>>>])
  IN Join(banner \o body, <<LineBreak>>)

(***************************************************************************)
(* check.ts: the field diff of the check command                           *)
(***************************************************************************)
\* the end of the longest run of \s that starts at i
RECURSIVE SkipSpace(_, _)
SkipSpace(text, i) ==
  IF i <= Len(text) /\ text[i] \in WhiteSpace THEN SkipSpace(text, i + 1) ELSE i

\* the first position from i on that holds one of the tokens, else Len + 1
FirstOf(text, i, tokens) ==
  LET at == {k \in i..Len(text) : text[k] \in tokens}
  IN IF at = {} THEN Len(text) + 1 ELSE CHOOSE k \in at : \A j \in at : k <= j

TokenAt(text, i) == IF i \in 1..Len(text) THEN text[i] ELSE ""

\* export\s+(?:interface|type)\s+ matched at i: the position after it, else 0
ExportKeywordAt(text, i) ==
  LET kw == SkipSpace(text, i + 1)
      after == SkipSpace(text, kw + 1)
  IN IF /\ TokenAt(text, i) = "export"
        /\ kw > i + 1
        /\ TokenAt(text, kw) \in {"interface", "type"}
        /\ after > kw + 1
     THEN after ELSE 0

\* the declaration pattern of detectTypeChange matched at i:
\* export\s+(?:interface|type)\s+NAME\s*(?:extends[^{]*)?\{([^}]*)\}
interfaceRegexAt(text, i, name) ==
  LET at == ExportKeywordAt(text, i)
      rest == SkipSpace(text, at + 1)
      open ==
        IF TokenAt(text, rest) = "extends" THEN FirstOf(text, rest + 1, {"{"})
        ELSE rest
      close == FirstOf(text, open + 1, {"}"})
  IN IF /\ at # 0
        /\ TokenAt(text, at) = name
        /\ TokenAt(text, open) = "{"
        /\ close <= Len(text)
     THEN [matched |-> TRUE, body |-> SubSeq(text, open + 1, close - 1)]
     ELSE [matched |-> FALSE]

\* existingContent.match(interfaceRegex): the leftmost match
interfaceRegexMatch(text, name) ==
  LET at == {i \in 1..Len(text) : interfaceRegexAt(text, i, name).matched}
  IN IF at = {} THEN [matched |-> FALSE]
     ELSE interfaceRegexAt(text, CHOOSE i \in at : \A j \in at : i <= j, name)

\* String.prototype.trim
RECURSIVE trim(_)
trim(text) ==
  IF text = <<>> THEN text
  ELSE IF Head(text) \in WhiteSpace THEN trim(Tail(text))
  ELSE IF text[Len(text)] \in WhiteSpace THEN trim(SubSeq(text, 1, Len(text) - 1))
  ELSE text

\* the field pattern of parseFieldsFromContent matched at i:
\* (\w+)\??\s*:\s*([^;\n]+).  The blanks after the colon are taken greedily
\* and given back one by one until a token other than ; and a line break
\* follows.
fieldRegexAt(text, i) ==
  LET mark == IF TokenAt(text, i + 1) = "?" THEN i + 2 ELSE i + 1
      colon == SkipSpace(text, mark)
      starts ==
        {s \in (colon + 1)..SkipSpace(text, colon + 1) :
           s <= Len(text) /\ text[s] \notin {";", LineBreak}}
      start == CHOOSE s \in starts : \A t \in starts : t <= s
      end == FirstOf(text, start + 1, {";", LineBreak}) - 1
  IN IF /\ i <= Len(text) /\ IsWord(text[i])
        /\ TokenAt(text, colon) = ":"
        /\ starts # {}
     THEN [matched |-> TRUE, name |-> text[i],
           type |-> SubSeq(text, start, end), lastIndex |-> end + 1]
     ELSE [matched |-> FALSE]

\* Map.prototype.has / get / set on a map kept in insertion order
MapHas(fields, name) == \E i \in 1..Len(fields) : fields[i].name = name
MapGet(fields, name) ==
  fields[CHOOSE i \in 1..Len(fields) : fields[i].name = name].type
MapSet(fields, name, type) ==
  IF MapHas(fields, name)
  THEN [i \in 1..Len(fields) |->
          IF fields[i].name = name THEN [name |-> name, type |-> type]
          ELSE fields[i]]
  ELSE Append(fields, [name |-> name, type |-> type])

\* the loop of parseFieldsFromContent: fieldRegex.exec from lastIndex on
RECURSIVE ExecFields(_, _, _)
ExecFields(text, lastIndex, fields) ==
  LET at == {i \in lastIndex..Len(text) : fieldRegexAt(text, i).matched}
  IN IF at = {} THEN fields
     ELSE LET match == fieldRegexAt(text, CHOOSE i \in at : \A j \in at : i <= j)
          IN ExecFields(text, match.lastIndex,
                        MapSet(fields, match.name, trim(match.type)))

\* check.ts parseFieldsFromContent
parseFieldsFromContent(content) == ExecFields(content, 1, <<>>)

RECURSIVE SetAll(_, _, _)
SetAll(fields, props, cfg) ==
  IF props = <<>> THEN fields
  ELSE SetAll(MapSet(fields, Head(props).name,
                     schemaToTsType(Head(props).schema, cfg)),
              Tail(props), cfg)

RECURSIVE SetAllOf(_, _, _)
SetAllOf(fields, items, cfg) ==
  IF items = <<>> THEN fields
  ELSE SetAllOf(IF Has(Head(items), "properties")
                THEN SetAll(fields, Head(items).properties, cfg)
                ELSE fields,
                Tail(items), cfg)

\* check.ts parseFieldsFromSchema
parseFieldsFromSchema(schema, cfg) ==
  LET own ==
        IF Has(schema, "properties") THEN SetAll(<<>>, schema.properties, cfg)
        ELSE <<>>
  IN IF Has(schema, "allOf") THEN SetAllOf(own, schema.allOf, cfg) ELSE own

\* type.replace(/\s+/g, ' '): every run of white space becomes one blank
RECURSIVE CollapseSpace(_)
CollapseSpace(text) ==
  IF text = <<>> THEN <<>>
  ELSE IF Head(text) \in WhiteSpace
    THEN <<Blank>> \o CollapseSpace(SubSeq(text, SkipSpace(text, 1), Len(text)))
  ELSE <<Head(text)>> \o CollapseSpace(Tail(text))

\* check.ts normalizeType
normalizeType(type) == trim(CollapseSpace(type))

\* check.ts compareFields
compareFields(oldFields, newFields) ==
  Flatten([i \in 1..Len(newFields) |->
    LET f == newFields[i] IN
    IF ~MapHas(oldFields, f.name)
    THEN <<[field |-> f.name, changeType |-> "added", newType |-> f.type]>>
    ELSE IF normalizeType(MapGet(oldFields, f.name)) # normalizeType(f.type)
    THEN <<[field |-> f.name, changeType |-> "modified",
            oldType |-> MapGet(oldFields, f.name), newType |-> f.type]>>
    ELSE <<>>])
  \o Flatten([i \in 1..Len(oldFields) |->
    LET f == oldFields[i] IN
    IF ~MapHas(newFields, f.name)
    THEN <<[field |-> f.name, changeType |-> "removed", oldType |-> f.type]>>
    ELSE <<>>])

\* the value null of detectTypeChange
NoTypeChange == [null |-> TRUE]

\* check.ts detectTypeChange
detectTypeChange(newType, existingContent, cfg) ==
  LET match == interfaceRegexMatch(existingContent, newType.name) IN
  IF ~match.matched
  THEN [typeName |-> newType.name, changeType |-> "added", fields |-> <<>>]
  ELSE LET existingFields == parseFieldsFromContent(match.body)
           newFields == parseFieldsFromSchema(newType.schema, cfg)
           fieldChanges == compareFields(existingFields, newFields)
       IN IF fieldChanges # <<>>
          THEN [typeName |-> newType.name, changeType |-> "modified",
                fields |-> fieldChanges]
          ELSE NoTypeChange

\* the names /export\s+(?:interface|type)\s+(\w+)/g finds, in order
RECURSIVE ExecTypeNames(_, _, _)
ExecTypeNames(text, lastIndex, names) ==
  LET at == {i \in lastIndex..Len(text) :
               /\ ExportKeywordAt(text, i) # 0
               /\ IsWord(TokenAt(text, ExportKeywordAt(text, i)))
               /\ TokenAt(text, ExportKeywordAt(text, i)) # ""}
  IN IF at = {} THEN names
     ELSE LET i == CHOOSE k \in at : \A j \in at : k <= j
              nameAt == ExportKeywordAt(text, i)
          IN ExecTypeNames(text, nameAt + 1, SetAdd(names, text[nameAt]))

\* check.ts detectDeletedTypes
detectDeletedTypes(newTypes, existingContent) ==
  LET existingTypeNames == ExecTypeNames(existingContent, 1, <<>>)
      newTypeNames == {newTypes[i].name : i \in 1..Len(newTypes)}
      deleted == SelectSeq(existingTypeNames, LAMBDA n : n \notin newTypeNames)
  IN [i \in 1..Len(deleted) |->
        [typeName |-> deleted[i], changeType |-> "removed", fields |-> <<>>]]

\* check.ts detectChanges: the type changes of one module
detectChanges(newTypes, file, cfg) ==
  IF file.exists
  THEN SelectSeq([i \in 1..Len(newTypes) |->
                    detectTypeChange(newTypes[i], file.content, cfg)],
                 LAMBDA c : c # NoTypeChange)
         \o detectDeletedTypes(newTypes, file.content)
  ELSE [i \in 1..Len(newTypes) |->
          [typeName |-> newTypes[i].name, changeType |-> "added", fields |-> <<>>]]

(***************************************************************************)
(* The check command on one module                                         *)
(*                                                                         *)
(* The update command writes the module's type file from the document; a   *)
(* formatter may rewrite the file's white space and separators; the        *)
(* document changes; the check command compares the new types with the     *)
(* file.  The types are User, an object with up to MaxProps of the fields  *)
(* id, name, age and address, and Order, which refers to User.             *)
(***************************************************************************)
MaxProps == 3

Optional(props) == {<<>>} \cup {<<p>> : p \in props}

IdProps == {Prop("id", Prim("integer")), Prop("id", Prim("string"))}
NameProps == {Prop("name", Prim("string"))}
AgeProps == {Prop("age", Prim("integer"))}
AddressProps ==
  {Prop("address", Object(<<Prop("city", Prim("string"))>>)),
   Prop("address", Prim("object"))}

UserSchemas ==
  {[type |-> "object", properties |-> props, required |-> <<"id", "name">>] :
     props \in {p \in {a \o b \o c \o d :
                         a \in Optional(IdProps), b \in Optional(NameProps),
                         c \in Optional(AgeProps), d \in Optional(AddressProps)} :
                  Len(p) <= MaxProps}}

OrderSchema ==
  [ type |-> "object",
    properties |->
      <<Prop("id", Prim("integer")), Prop("owner", Ref(Prefix2, "User"))>>,
    required |-> <<"id">> ]

\* parser.ts parseType, with the name as a word
DiffType(refName, schema) ==
  [parseType(refName, schema, defaultConfig) EXCEPT !.name = WordOf(@)]

\* the types parseSwagger may return for the module
ModuleTypeLists ==
  {<<DiffType("model.OrderResponse", OrderSchema)>>}
    \cup {<<DiffType("User", s)>> : s \in UserSchemas}
    \cup {<<DiffType("model.OrderResponse", OrderSchema), DiffType("User", s)>> :
            s \in UserSchemas}

\* a formatter puts every declaration on one line, its members separated by
\* semicolons
RECURSIVE OneLine(_, _)
OneLine(text, prev) ==
  IF text = <<>> THEN <<>>
  ELSE IF Len(text) >= 3 /\ SubSeq(text, 1, 3) = <<LineBreak, Blank, Blank>>
    THEN (IF prev = "{" THEN <<Blank>> ELSE <<";", Blank>>)
           \o OneLine(SubSeq(text, 4, Len(text)), Blank)
  ELSE IF Len(text) >= 2 /\ SubSeq(text, 1, 2) = <<LineBreak, "}">>
    THEN <<Blank, "}">> \o OneLine(SubSeq(text, 3, Len(text)), "}")
  ELSE <<Head(text)>> \o OneLine(Tail(text), Head(text))

\* a formatter doubles every blank
RECURSIVE Widen(_)
Widen(text) ==
  IF text = <<>> THEN <<>>
  ELSE (IF Head(text) = Blank THEN <<Blank, Blank>> ELSE <<Head(text)>>)
         \o Widen(Tail(text))

Layouts == {"one line", "wide"}

Reformatted(text, layout) ==
  IF layout = "one line" THEN OneLine(text, "") ELSE Widen(text)

InitDiff ==
  /\ RunIdle /\ EmitIdle /\ LoadIdle
  /\ pc = "parsed"
  /\ moduleTypes \in ModuleTypeLists
  /\ existingTypes = FileAbsent
  /\ declared = <<>>
  /\ typeChanges = <<>>
  /\ NameIdle /\ PathIdle /\ CfgIdle /\ MergeIdle /\ ParseIdle /\ CheckIdle

\* update.ts generateModuleTypes: the type file is written from the document
UpdateTypes ==
  /\ pc \in {"parsed", "changed"}
  /\ existingTypes' = File(TypesFileText(moduleTypes, defaultConfig))
  /\ declared' = moduleTypes
  /\ UNCHANGED <<pc, moduleTypes, typeChanges, restOfDiff>>

\* the generated file is reformatted; it declares what it declared
Reformat ==
  /\ pc = "parsed"
  /\ existingTypes = File(TypesFileText(declared, defaultConfig))
  /\ \E layout \in Layouts :
       existingTypes' = File(Reformatted(existingTypes.content, layout))
  /\ UNCHANGED <<pc, moduleTypes, declared, typeChanges, restOfDiff>>

\* the document changes: parseSwagger returns other types for the module
ChangeTypes ==
  /\ pc = "parsed"
  /\ moduleTypes' \in ModuleTypeLists \ {moduleTypes}
  /\ pc' = "changed"
  /\ UNCHANGED <<existingTypes, declared, typeChanges, restOfDiff>>

\* check.ts runCheck / detectChanges
RunCheck ==
  /\ pc \in {"parsed", "changed"}
  /\ typeChanges' = detectChanges(moduleTypes, existingTypes, defaultConfig)
  /\ pc' = "checked"
  /\ UNCHANGED <<moduleTypes, existingTypes, declared, restOfDiff>>

NextDiff == UpdateTypes \/ Reformat \/ ChangeTypes \/ RunCheck

SpecDiff == InitDiff /\ [][NextDiff]_vars

(***************************************************************************)
(* The field diff                                                          *)
(***************************************************************************)
\* the fields a type declares, with the type text the declaration gives them
DeclaredFields(type) ==
  LET props == SelectSeq(type.schema.properties,
                         LAMBDA p : ~IsExcluded(p.name, defaultConfig))
  IN [i \in 1..Len(props) |->
        [name |-> props[i].name,
         type |-> schemaToTsType(props[i].schema, defaultConfig)]]

FieldNames(fields) == {fields[i].name : i \in 1..Len(fields)}

\* one change per differing field
ExpectedChanges(old, new) ==
  {[field |-> n, changeType |-> "added", newType |-> MapGet(new, n)] :
     n \in FieldNames(new) \ FieldNames(old)}
    \cup {[field |-> n, changeType |-> "removed", oldType |-> MapGet(old, n)] :
            n \in FieldNames(old) \ FieldNames(new)}
    \cup {[field |-> n, changeType |-> "modified",
           oldType |-> MapGet(old, n), newType |-> MapGet(new, n)] :
            n \in {m \in FieldNames(old) \cap FieldNames(new) :
                     normalizeType(MapGet(old, m)) # normalizeType(MapGet(new, m))}}

\* a reported change, its old type text up to white space
UpToSpace(change) ==
  IF Has(change, "oldType") THEN [change EXCEPT !.oldType = normalizeType(@)]
  ELSE change

\* the entries of the report for a type
ReportsOf(name) == SelectSeq(typeChanges, LAMBDA c : c.typeName = name)

\* the report for a new type and the declaration of the same name is what
\* the field diff is to give
FieldDiffOf(old, new) ==
  LET expected ==
        ExpectedChanges(DeclaredFields(old),
                        parseFieldsFromSchema(new.schema, defaultConfig))
      reports == ReportsOf(new.name)
  IN IF expected = {} THEN reports = <<>>
     ELSE /\ Len(reports) = 1
          /\ reports[1].changeType = "modified"
          /\ Len(reports[1].fields) = Cardinality(expected)
          /\ {UpToSpace(reports[1].fields[k]) : k \in 1..Len(reports[1].fields)}
               = expected

\* the declarations of the file a new type has the name of
DeclaredAs(new) == {d \in Range(declared) : d.name = new.name}

\* the declaration's body holds a closing brace of its own
HasInlineObject(type) ==
  \E i \in 1..Len(type.schema.properties) :
    "}" \in Range(schemaToTsType(type.schema.properties[i].schema, defaultConfig))

UserOf(props) ==
  DiffType("User", [type |-> "object", properties |-> props,
                    required |-> <<"id", "name">>])

PriorUser == UserOf(<<Prop("id", Prim("integer")), Prop("name", Prim("string"))>>)
NewUser ==
  UserOf(<<Prop("id", Prim("integer")), Prop("name", Prim("string")),
           Prop("age", Prim("integer"))>>)

\* the example: id: number, name: string, and a new model that adds age
ExampleDiff ==
  (/\ pc = "checked" /\ existingTypes.exists
   /\ PriorUser \in Range(declared) /\ NewUser \in Range(moduleTypes))
    => ReportsOf("User")
         = <<[typeName |-> "User", changeType |-> "modified",
              fields |-> <<[field |-> "age", changeType |-> "added",
                            newType |-> <<"number">>]>>]>>

\* C10: after a check, every new type whose exported declaration is in the
\* prior type file is reported as modified with exactly one change per
\* differing field (added with the new type text, removed with the old,
\* modified when the white-space-normalized texts differ) and is not
\* reported when no field differs; a prior User with id: number and
\* name: string against a model adding age?: number gives the single change
\* age added, type number.
C10_FieldDiff ==
  /\ (pc = "checked" /\ existingTypes.exists) =>
       \A new \in Range(moduleTypes) : \A old \in DeclaredAs(new) :
         FieldDiffOf(old, new)
  /\ ExampleDiff

\* the same for the declarations none of whose fields has an inline object
\* type
C10_FieldDiffFlat ==
  /\ (pc = "checked" /\ existingTypes.exists) =>
       \A new \in Range(moduleTypes) : \A old \in DeclaredAs(new) :
         ~HasInlineObject(old) => FieldDiffOf(old, new)
  /\ ExampleDiff

\* the example has been checked
C10_ExampleChecked ==
  /\ pc = "checked" /\ existingTypes.exists
  /\ PriorUser \in Range(declared) /\ NewUser \in Range(moduleTypes)

\* an unchanged declaration with an inline object field has been checked
C10_InlineUnchanged ==
  /\ pc = "checked" /\ existingTypes.exists
  /\ \E new \in Range(moduleTypes) :
       /\ new \in Range(declared)
       /\ HasInlineObject(new)
       /\ ReportsOf(new.name) # <<>>

(***************************************************************************)
(* The function generator, on tokens                                       *)
(*                                                                         *)
(* An operation has its call name and the names of its parameters as      *)
(* words, its verb and its cleaned path as characters, and its type names  *)
(* as token sequences (Undefined when it has none).  In the emitted text   *)
(* the characters of the verb and of the path are one token each.          *)
(***************************************************************************)
\* a string-valued field that is neither undefined nor empty
TruthyText(text) == text # Undefined /\ text # <<>>

\* config.requestClient (defaultConfig: 'requestClient')
RequestClient(cfg) ==
  IF Has(cfg, "requestClient") THEN cfg.requestClient ELSE "requestClient"

\* the positions (from 1) at which pat occurs in s
Occurrences(s, pat) ==
  {i \in 1..(Len(s) - Len(pat) + 1) : SubSeq(s, i, i + Len(pat) - 1) = pat}

\* String.prototype.replace with a string pattern: the first occurrence only
ReplaceFirst(s, pat, rep) ==
  LET at == Occurrences(s, pat) IN
  IF at = {} THEN s
  ELSE LET i == CHOOSE k \in at : \A j \in at : k <= j
       IN SubSeq(s, 1, i - 1) \o rep \o SubSeq(s, i + Len(pat), Len(s))

\* String.prototype.replaceAll: every occurrence, left to right
RECURSIVE ReplaceEvery(_, _, _)
ReplaceEvery(s, pat, rep) ==
  LET at == Occurrences(s, pat) IN
  IF at = {} THEN s
  ELSE LET i == CHOOSE k \in at : \A j \in at : k <= j
       IN SubSeq(s, 1, i - 1) \o rep
            \o ReplaceEvery(SubSeq(s, i + Len(pat), Len(s)), pat, rep)

\* pathParam.type === 'integer' ? 'number' : (pathParam.type || 'string')
PathParamType(param) ==
  IF ~Has(param, "type") \/ param.type \in {"undefined", ""} THEN "string"
  ELSE IF param.type = "integer" THEN "number"
  ELSE param.type

\* apiGenerator.ts buildFunctionParams
buildFunctionParams(api) ==
  [i \in 1..Len(api.pathParams) |->
     <<api.pathParams[i].name, ":", Blank, PathParamType(api.pathParams[i])>>]
    \o (IF TruthyText(api.bodyTypeName)
        THEN <<<<"data", ":", Blank>> \o api.bodyTypeName>> ELSE <<>>)
    \o (IF TruthyText(api.paramsTypeName)
        THEN <<<<"params", ":", Blank>> \o api.paramsTypeName>> ELSE <<>>)

\* the interpolation ${name}
Interpolation(name) == <<"$", "{">> \o name \o <<"}">>

\* the loop over api.pathParams of both styles, with every occurrence replaced
RECURSIVE requestPathOf_everyOccurrence(_, _)
requestPathOf_everyOccurrence(requestPath, pathParams) ==
  IF pathParams = <<>> THEN requestPath
  ELSE LET name == Words[Head(pathParams).name]
           braces == ReplaceEvery(requestPath, <<"{">> \o name \o <<"}">>,
                                  Interpolation(name))
           colon == ReplaceEvery(braces, <<":">> \o name, Interpolation(name))
       IN requestPathOf_everyOccurrence(colon, Tail(pathParams))

\* the loop over api.pathParams of both styles: {name}, then :name
RECURSIVE requestPathOf(_, _)
requestPathOf(requestPath, pathParams) ==
  IF pathParams = <<>> THEN requestPath
  ELSE LET name == Words[Head(pathParams).name]
           braces == ReplaceFirst(requestPath, <<"{">> \o name \o <<"}">>,
                                  Interpolation(name))
           colon == ReplaceFirst(braces, <<":">> \o name, Interpolation(name))
       IN requestPathOf(colon, Tail(pathParams))

\* the token of the delimiter of a template string
Backtick == "backtick"

\* a template string when there are path parameters, else a quoted string
pathStringOf(api) ==
  LET requestPath == requestPathOf(api.cleanPath, api.pathParams) IN
  IF Len(api.pathParams) > 0 THEN <<Backtick>> \o requestPath \o <<Backtick>>
  ELSE <<"'">> \o requestPath \o <<"'">>

\* export const NAME = (PARAMS) => {
FunctionHead(api, params) ==
  <<"export", Blank, "const", Blank, api.functionName, Blank, "=", Blank, "(">>
    \o Join(params, <<",", Blank>>)
    \o <<")", Blank, "=>", Blank, "{">>

\* apiGenerator.ts generateChainStyleFunction
generateChainStyleFunction(api, params, returnType, cfg) ==
  LET httpMethod == toLowerCase(api.method)
      requestArgs ==
        pathStringOf(api)
          \o (IF httpMethod \in {Chars_get, Chars_delete}
              THEN (IF TruthyText(api.paramsTypeName)
                    THEN <<",", Blank, "{", Blank, "params", Blank, "}">>
                    ELSE <<>>)
              ELSE (IF TruthyText(api.bodyTypeName)
                    THEN <<",", Blank, "data">> ELSE <<>>)
                     \o (IF TruthyText(api.paramsTypeName)
                         THEN <<",", Blank, "{", Blank, "params", Blank, "}">>
                         ELSE <<>>))
  IN FunctionHead(api, params)
       \o <<LineBreak, Blank, Blank, "return", Blank, RequestClient(cfg), ".">>
       \o httpMethod \o <<"<">> \o returnType \o <<">", "(">>
       \o requestArgs \o <<")", LineBreak, "}">>

\* apiGenerator.ts generateObjectStyleFunction
generateObjectStyleFunction(api, params, returnType, cfg) ==
  LET httpMethod == toLowerCase(api.method)
      indent == <<Blank, Blank, Blank, Blank>>
      configLines ==
        <<indent \o <<"url", ":", Blank>> \o pathStringOf(api),
          indent \o <<"method", ":", Blank, "'">> \o httpMethod \o <<"'">>>>
          \o (IF TruthyText(api.bodyTypeName) THEN <<indent \o <<"data">>>> ELSE <<>>)
          \o (IF TruthyText(api.paramsTypeName)
              THEN <<indent \o <<"params">>>> ELSE <<>>)
  IN FunctionHead(api, params)
       \o <<LineBreak, Blank, Blank, "return", Blank, RequestClient(cfg), "<">>
       \o returnType \o <<">", "(", "{", LineBreak>>
       \o Join(configLines, <<",", LineBreak>>)
       \o <<LineBreak, Blank, Blank, "}", ")", LineBreak, "}">>

\* apiGenerator.ts generateApiFunction
FunctionText(api, cfg) ==
  LET params == buildFunctionParams(api)
      returnType ==
        IF TruthyText(api.responseTypeName) THEN api.responseTypeName
        ELSE <<"unknown">>
      summary ==
        IF Has(api, "summary") /\ TruthyText(api.summary)
        THEN <<<<"/**", Blank>> \o api.summary \o <<Blank, "*/">>>>
        ELSE <<>>
  IN Join(summary
            \o <<IF cfg.requestStyle = "chain"
                 THEN generateChainStyleFunction(api, params, returnType, cfg)
                 ELSE generateObjectStyleFunction(api, params, returnType, cfg)>>,
          <<LineBreak>>)

\* the characters the model's texts sort by, in the order of their code units
CodeOrder ==
  <<" ", "$", ",", ".", "/">> \o <<"0","1","2","3","4","5","6","7","8","9">>
    \o <<"<", ">">> \o UpperAlpha \o <<"[", "]", "_">> \o LowerAlpha
    \o <<"{", "|", "}">>

CodeOf(c) == CHOOSE i \in 1..Len(CodeOrder) : CodeOrder[i] = c

\* the characters of a token: a word's characters, else the token itself
TokenChars(token) ==
  IF token \in DOMAIN Words THEN Words[token]
  ELSE IF token = "string" THEN Chars_string
  ELSE IF token = "number" THEN Chars_number
  ELSE IF token = "boolean" THEN Chars_boolean
  ELSE IF token = "unknown" THEN Chars_unknown
  ELSE IF token = "Record" THEN SubSeq(Chars_Record, 1, 6)
  ELSE <<token>>

TextChars(text) == Flatten([i \in 1..Len(text) |-> TokenChars(text[i])])

\* a < b for strings, as Array.prototype.sort() compares them
RECURSIVE CodeLess(_, _)
CodeLess(a, b) ==
  IF b = <<>> THEN FALSE
  ELSE IF a = <<>> THEN TRUE
  ELSE IF Head(a) = Head(b) THEN CodeLess(Tail(a), Tail(b))
  ELSE CodeOf(Head(a)) < CodeOf(Head(b))

\* [...set].sort() of a set of texts
RECURSIVE SortTexts(_)
SortTexts(set) ==
  IF set = {} THEN <<>>
  ELSE LET least ==
             CHOOSE t \in set :
               \A u \in set \ {t} : CodeLess(TextChars(t), TextChars(u))
       IN <<least>> \o SortTexts(set \ {least})

\* apiGenerator.ts BUILTIN_TYPES
BUILTIN_TYPES ==
  {"unknown", "any", "void", "never", "string", "number", "boolean",
   "null", "undefined", "object", "symbol", "bigint",
   "Record", "Partial", "Required", "Readonly", "Pick", "Omit", "Array"}

\* apiGenerator.ts extractBaseTypeName: typeName.replace(/\[\]$/, '')
extractBaseTypeName(typeName) ==
  IF Len(typeName) >= 2 /\ SubSeq(typeName, Len(typeName) - 1, Len(typeName)) = <<"[", "]">>
  THEN SubSeq(typeName, 1, Len(typeName) - 2)
  ELSE typeName

\* BUILTIN_TYPES.has(baseName): the name is one of the listed strings
IsBuiltin(baseName) == Len(baseName) = 1 /\ baseName[1] \in BUILTIN_TYPES

\* the names generateImports collects
ImportedTypeNames(apiList) ==
  LET named(api) ==
        {t \in {api.paramsTypeName, api.bodyTypeName, api.responseTypeName} :
           TruthyText(t)}
  IN {b \in {extractBaseTypeName(t) :
               t \in UNION {named(apiList[i]) : i \in 1..Len(apiList)}} :
        ~IsBuiltin(b)}

\* apiGenerator.ts generateImports, as lines of tokens
ImportLines(apiList, cfg) ==
  LET typeNames == ImportedTypeNames(apiList) IN
  <<<<"import", Blank, "{", Blank, RequestClient(cfg), Blank, "}", Blank, "from",
      Blank, "'", "@/utils/request", "'">>>>
    \o (IF typeNames # {}
        THEN <<<<"import", Blank, "type", Blank, "{", Blank>>
                 \o Join(SortTexts(typeNames), <<",", Blank>>)
                 \o <<Blank, "}", Blank, "from", Blank, "'", "./types", "'">>>>
        ELSE <<>>)

\* apiGenerator.ts generateApiFile (the banner's wording is left out)
ApiFileText(apiList, cfg) ==
  Join(<<<<"/**">>, <<Blank, "*", Blank, "generated">>, <<Blank, "*/">>, <<>>>>
         \o <<Join(ImportLines(apiList, cfg), <<LineBreak>>), <<>>>>
         \o <<AUTO_GEN_START, <<>>>>
         \o Flatten([i \in 1..Len(apiList) |->
                       <<FunctionText(apiList[i], cfg), <<>>>>])
         \o <<AUTO_GEN_END, <<>>>>,
       <<LineBreak>>)

\* /export const (\w+) = \([^)]*\) => \{[\s\S]*?\n\}/ matched at i
funcRegexAt(text, i) ==
  LET close == FirstOf(text, i + 9, {")"})
      ends == {j \in (close + 5)..(Len(text) - 1) :
                 text[j] = LineBreak /\ text[j + 1] = "}"}
      end == CHOOSE j \in ends : \A k \in ends : j <= k
  IN IF /\ i + 8 <= Len(text)
        /\ SubSeq(text, i, i + 3) = <<"export", Blank, "const", Blank>>
        /\ IsWord(text[i + 4])
        /\ SubSeq(text, i + 5, i + 8) = <<Blank, "=", Blank, "(">>
        /\ close + 4 <= Len(text)
        /\ SubSeq(text, close + 1, close + 4) = <<Blank, "=>", Blank, "{">>
        /\ ends # {}
     THEN [matched |-> TRUE, name |-> text[i + 4],
           type |-> SubSeq(text, i, end + 1), lastIndex |-> end + 2]
     ELSE [matched |-> FALSE]

\* the loop of extractExistingApis: funcRegex.exec from lastIndex on
RECURSIVE ExecFuncs(_, _, _)
ExecFuncs(text, lastIndex, found) ==
  LET at == {i \in lastIndex..Len(text) : funcRegexAt(text, i).matched}
  IN IF at = {} THEN found
     ELSE LET match == funcRegexAt(text, CHOOSE i \in at : \A j \in at : i <= j)
          IN ExecFuncs(text, match.lastIndex,
                       MapSet(found, match.name, match.type))

\* apiGenerator.ts extractExistingApis: call name |-> text of the call
extractExistingApis(content) == ExecFuncs(content, 1, <<>>)

\* a diff that reports the operations missing from the file and no other
detectApiChanges_addedOnly(newApis, file) ==
  LET existingApis ==
        IF file.exists THEN extractExistingApis(file.content) ELSE <<>>
      added == SelectSeq(newApis,
                         LAMBDA a : ~MapHas(existingApis, a.functionName))
  IN [i \in 1..Len(added) |->
        [path |-> added[i].path, method |-> added[i].method,
         changeType |-> "added", functionName |-> added[i].functionName]]

\* check.ts detectChanges: the operation changes of one module
detectApiChanges(newApis, file) ==
  IF file.exists
  THEN LET existingApis == extractExistingApis(file.content)
           newApiFunctions == {newApis[i].functionName : i \in 1..Len(newApis)}
           added == SelectSeq(newApis,
                              LAMBDA a : ~MapHas(existingApis, a.functionName))
           removed == SelectSeq(existingApis,
                                LAMBDA e : e.name \notin newApiFunctions)
       IN [i \in 1..Len(added) |->
             [path |-> added[i].path, method |-> added[i].method,
              changeType |-> "added", functionName |-> added[i].functionName]]
          \o [i \in 1..Len(removed) |->
                [path |-> <<>>, method |-> <<>>, changeType |-> "removed",
                 functionName |-> removed[i].name]]
  ELSE [i \in 1..Len(newApis) |->
          [path |-> newApis[i].path, method |-> newApis[i].method,
           changeType |-> "added", functionName |-> newApis[i].functionName]]

\* check.ts detectChanges: the entry of one module, if it has a change
ModuleChangeReports(moduleName, newTypes, newApis, typeFile, apiFile_, cfg) ==
  LET changedTypes == detectChanges(newTypes, typeFile, cfg)
      changedApis == detectApiChanges(newApis, apiFile_)
  IN IF Len(changedTypes) > 0 \/ Len(changedApis) > 0
     THEN <<[moduleName |-> moduleName, typeChanges |-> changedTypes,
             apiChanges |-> changedApis]>>
     ELSE <<>>

(***************************************************************************)
(* The type file of a module: its types and its query-parameter types      *)
(***************************************************************************)
\* typeGenerator.ts parameterToTsType
parameterToTsType(param) ==
  IF Has(param, "enum")
  THEN Join([i \in 1..Len(param.enum) |-> EnumText(param.enum[i])],
            <<Blank, "|", Blank>>)
  ELSE IF ~Has(param, "type") THEN <<"unknown">>
  ELSE CASE param.type = "string" -> <<"string">>
         [] param.type \in {"integer", "number"} -> <<"number">>
         [] param.type = "boolean" -> <<"boolean">>
         [] param.type = "array" ->
              IF Has(param, "items") THEN <<"string", "[", "]">>
              ELSE <<"unknown", "[", "]">>
         [] OTHER -> <<"unknown">>

\* the parameters generateQueryParamsType gives a property
KeptParams(params, cfg) ==
  SelectSeq(params,
            LAMBDA q : q.name # "" /\ q.name # "-" /\ ~IsExcluded(q.name, cfg))

\* typeGenerator.ts generateQueryParamsType
generateQueryParamsType(name, params, cfg) ==
  LET kept == KeptParams(params, cfg)
      lines(q) ==
        (IF Has(q, "description")
         THEN <<<<Blank, Blank, "/**", Blank>> \o q.description \o <<Blank, "*/">>>>
         ELSE <<>>)
          \o <<<<Blank, Blank>> \o formatPropertyName(q.name)
                 \o (IF Has(q, "required") /\ q.required THEN <<>> ELSE <<"?">>)
                 \o <<":", Blank>> \o parameterToTsType(q)>>
  IN Join(<<<<"export", Blank, "interface", Blank>> \o name \o <<Blank, "{">>>>
            \o Flatten([i \in 1..Len(kept) |-> lines(kept[i])])
            \o <<<<"}">>>>,
          <<LineBreak>>)

\* the operations generateTypesFile emits a parameters type for
WithParamsType(apiList) ==
  SelectSeq(apiList,
            LAMBDA a : Len(a.queryParams) > 0 /\ TruthyText(a.paramsTypeName))

\* typeGenerator.ts generateTypesFile, as text
generateTypesFileText(typeList, apiList, cfg) ==
  LET unique == UniqueByName(typeList)
      withParams == WithParamsType(apiList)
      banner ==
        <<<<"/**">>, <<Blank, "*", Blank, "generated">>, <<Blank, "*/">>, <<>>>>
      typeBlocks ==
        Flatten([i \in 1..Len(unique) |->
                   <<generateTypeDefinition(unique[i].name, unique[i].schema, cfg),
                     <<>>>>])
      paramBlocks ==
        Flatten([i \in 1..Len(withParams) |->
                   <<generateQueryParamsType(withParams[i].paramsTypeName,
                                             withParams[i].queryParams, cfg),
                     <<>>>>])
  IN Join(banner \o typeBlocks \o paramBlocks, <<LineBreak>>)

\* update.ts cleanTypeName (the copy of the update command)
updateCleanTypeName(name, suffixes) ==
  LET parts == Split(name, ".")
      last == parts[Len(parts)]
      camel == CamelScan(last, 1)
      upper == IF camel = <<>> \/ camel[1] = "\n" THEN camel
               ELSE <<toUpperCaseChar(camel[1])>> \o Tail(camel)
  IN removeTypeSuffix(upper, suffixes)

\* update.ts extractTypeRefs: the cleaned names of the references of a schema
RECURSIVE extractTypeRefs(_, _)
extractTypeRefs(schema, cfg) ==
  (IF Has(schema, "ref")
   THEN <<updateCleanTypeName(RefText(StripPrefix(schema.ref, Prefix2)),
                              cfg.typeNameSuffixFilter)>>
   ELSE <<>>)
    \o (IF Has(schema, "properties")
        THEN Flatten([i \in 1..Len(schema.properties) |->
                        extractTypeRefs(schema.properties[i].schema, cfg)])
        ELSE <<>>)
    \o (IF Has(schema, "items") THEN extractTypeRefs(schema.items, cfg) ELSE <<>>)
    \o (IF Has(schema, "allOf")
        THEN Flatten([i \in 1..Len(schema.allOf) |->
                        extractTypeRefs(schema.allOf[i], cfg)])
        ELSE <<>>)
    \o (IF Has(schema, "additionalProperties")
           /\ ~Has(schema.additionalProperties, "boolean")
        THEN extractTypeRefs(schema.additionalProperties, cfg)
        ELSE <<>>)

\* a Map<string, ParsedType[]> in insertion order: its values, one after another
AllTypesOf(allTypes) == Flatten([i \in 1..Len(allTypes) |-> allTypes[i].value])

\* Map.prototype.get(key) || []
TypesOfModule(allTypes, key) ==
  IF \E i \in 1..Len(allTypes) : allTypes[i].key = key
  THEN allTypes[CHOOSE i \in 1..Len(allTypes) : allTypes[i].key = key].value
  ELSE <<>>

\* update.ts collectDependentTypes: result and processedNames after the call
RECURSIVE collectDependentTypes(_, _, _, _)
RECURSIVE OverRefs(_, _, _, _)
RECURSIVE OverTypes(_, _, _, _, _)
collectDependentTypes(type, flat, acc, cfg) ==
  OverRefs(extractTypeRefs(type.schema, cfg), flat, acc, cfg)

OverRefs(refs, flat, acc, cfg) ==
  IF refs = <<>> THEN acc
  ELSE IF \E n \in acc.processedNames : Words[n] = Head(refs)
    THEN OverRefs(Tail(refs), flat, acc, cfg)
  ELSE OverRefs(Tail(refs), flat, OverTypes(Head(refs), flat, 1, acc, cfg), cfg)

OverTypes(refName, flat, k, acc, cfg) ==
  IF k > Len(flat) THEN acc
  ELSE IF Words[flat[k].name] = refName /\ flat[k].name \notin acc.processedNames
    THEN OverTypes(refName, flat, k + 1,
                   collectDependentTypes(
                     flat[k], flat,
                     [result |-> Append(acc.result, flat[k]),
                      processedNames |-> acc.processedNames \cup {flat[k].name}],
                     cfg),
                   cfg)
  ELSE OverTypes(refName, flat, k + 1, acc, cfg)

\* the outer loop of collectModuleTypes from the k-th type on
RECURSIVE CollectNeeded(_, _, _, _, _)
CollectNeeded(neededTypes, flat, k, acc, cfg) ==
  IF k > Len(flat) THEN acc
  ELSE IF <<flat[k].name>> \in neededTypes /\ flat[k].name \notin acc.processedNames
    THEN CollectNeeded(neededTypes, flat, k + 1,
                       collectDependentTypes(
                         flat[k], flat,
                         [result |-> Append(acc.result, flat[k]),
                          processedNames |-> acc.processedNames \cup {flat[k].name}],
                         cfg),
                       cfg)
  ELSE CollectNeeded(neededTypes, flat, k + 1, acc, cfg)

\* update.ts collectModuleTypes
collectModuleTypes(apiList, allTypes, cfg) ==
  LET neededTypes ==
        {t \in UNION {{apiList[i].bodyTypeName, apiList[i].responseTypeName} :
                        i \in 1..Len(apiList)} : TruthyText(t)}
  IN CollectNeeded(neededTypes, AllTypesOf(allTypes), 1,
                   [result |-> <<>>, processedNames |-> {}], cfg).result

(***************************************************************************)
(* The check command on the files of one module                            *)
(*                                                                         *)
(* The module is the one of the tag user.  An update run on an output      *)
(* directory without the module writes its type file and its function      *)
(* file; a developer may add a call of their own to the function file or   *)
(* delete one of the files; the document changes; the check command        *)
(* compares the new model with the files.                                  *)
(***************************************************************************)
MaxApis == 2

ModuleName == Chars_user

Chars_slashUsers == <<"/","u","s","e","r","s">>
Chars_slashProfile == <<"/","p","r","o","f","i","l","e">>
Chars_slashRole == <<"/","r","o","l","e">>

\* the definitions of the document
CheckSchemas ==
  ("User" :>
     [type |-> "object",
      properties |-> <<Prop("id", Prim("integer")), Prop("name", Prim("string"))>>,
      required |-> <<"id", "name">>])
    @@ ("user.Profile" :>
          [type |-> "object",
           properties |->
             <<Prop("id", Prim("integer")), Prop("owner", Ref(Prefix2, "User"))>>,
           required |-> <<"id">>])
    @@ ("user.Role" :>
          [type |-> "string",
           enum |-> <<[string |-> "admin"], [string |-> "guest"]>>])
    @@ ("user.UserResponse" :>
          [type |-> "object",
           properties |-> <<Prop("id", Prim("string")), Prop("age", Prim("integer"))>>,
           required |-> <<"id">>])

\* a ParsedAPI of the module; uses lists the definitions the document's
\* operation reaches
Api(name, verb, route, query, bodyType, responseType, uses) ==
  [ functionName |-> name, method |-> verb, path |-> Chars_api \o route,
    cleanPath |-> route, tag |-> ModuleName, pathParams |-> <<>>,
    queryParams |-> query,
    paramsTypeName |->
      IF Len(query) > 0 THEN <<"GetUsersParams">> ELSE Undefined,
    bodyTypeName |-> bodyType, responseTypeName |-> responseType,
    uses |-> uses ]

PageParam == [name |-> "page", in |-> "query", type |-> "integer"]

\* the definitions User and user.UserResponse both have the display name User
UserDefinitions == {"User", "user.UserResponse"}

GetUsersChoices ==
  {Api("getUsers", Chars_get, Chars_slashUsers, q, Undefined, <<"User">>,
       <<d>>) : q \in {<<>>, <<PageParam>>}, d \in UserDefinitions}
\* GET /users answering an inline envelope whose data field is an array of
\* User: the response type is the text of schemaTypeToTs, and the operation
\* adds no reference to usedRefs
ListUsersChoices ==
  {Api("getUsers", Chars_get, Chars_slashUsers, <<>>, Undefined,
       <<"User", "[", "]">>, <<>>)}
PostUsersChoices ==
  {Api("postUsers", Chars_post, Chars_slashUsers, <<>>, <<"User">>, <<"User">>,
       <<d>>) : d \in UserDefinitions}
GetProfileChoices ==
  {Api("getProfile", Chars_get, Chars_slashProfile, <<>>, Undefined,
       <<"Profile">>, <<"user.Profile", "User">>)}
GetRoleChoices ==
  {Api("getRole", Chars_get, Chars_slashRole, <<>>, Undefined, <<"Role">>,
       <<"user.Role">>)}

\* the operations parseSwagger may return for the module
ApiLists ==
  {l \in {a \o b \o c \o d :
            a \in Optional(GetUsersChoices \cup ListUsersChoices),
            b \in Optional(PostUsersChoices),
            c \in Optional(GetProfileChoices), d \in Optional(GetRoleChoices)} :
     Len(l) <= MaxApis}

\* Map.prototype.get / set with push, on a map kept in insertion order
MapPushOrdered(map, key, value) ==
  IF \E i \in 1..Len(map) : map[i].key = key
  THEN [i \in 1..Len(map) |->
          IF map[i].key = key
          THEN [key |-> key, value |-> Append(map[i].value, value)]
          ELSE map[i]]
  ELSE Append(map, [key |-> key, value |-> <<value>>])

\* the second loop of parseSwagger2 over the references from the k-th on
RECURSIVE EmitTypes(_, _, _)
EmitTypes(refs, k, map) ==
  IF k > Len(refs) THEN map
  ELSE EmitTypes(refs, k + 1,
                 MapPushOrdered(map, getModuleFromTypeName(TypeNameChars[refs[k]]),
                                DiffType(refs[k], CheckSchemas[refs[k]])))

\* the references of a list of operations, each once, in order
RECURSIVE UsedBy(_, _)
UsedBy(apiList, used) ==
  IF apiList = <<>> THEN used
  ELSE UsedBy(Tail(apiList),
              used \o SelectSeq(Head(apiList).uses,
                                LAMBDA r : r \notin Range(used)))

\* usedRefs after the loop over the operations: the reference each
\* operation makes itself, the first of its uses
RECURSIVE DirectRefs(_, _)
DirectRefs(apiList, used) ==
  IF apiList = <<>> THEN used
  ELSE DirectRefs(Tail(apiList),
                  IF Head(apiList).uses = <<>> THEN used
                  ELSE SetAdd(used, <<Prefix2, Head(Head(apiList).uses)>>))

\* the while loop of parseSwagger2 over the work-list: the visited set
RECURSIVE DrainAll(_, _)
DrainAll(refs, processed) ==
  IF refs = <<>> THEN processed
  ELSE LET next == Drain(refs, processed, CheckSchemas, Prefix2)
       IN DrainAll(next.refsToProcess, next.processedRefs)

\* the types parseSwagger returns with the operations
TypesFor(apiList) ==
  LET processed == DrainAll(DirectRefs(apiList, <<>>), <<>>)
  IN EmitTypes([i \in 1..Len(processed) |-> processed[i][2]], 1, <<>>)

\* what the type file written for the collected types and the operations
\* declares: each name, and whether it is declared as an interface
DeclaredBy(collected, apiList) ==
  LET withParams == WithParamsType(apiList) IN
  [i \in 1..Len(collected) |->
     [name |-> collected[i].name,
      interface |-> Has(collected[i].schema, "properties")]]
    \o [i \in 1..Len(withParams) |->
          [name |-> withParams[i].paramsTypeName[1], interface |-> TRUE]]

Styles == {"chain", "object"}

\* a call a developer wrote after the generated block
HandWrittenCall ==
  <<"export", Blank, "const", Blank, "helper", Blank, "=", Blank, "(", ")",
    Blank, "=>", Blank, "{", LineBreak, Blank, Blank, "return", Blank, "1",
    LineBreak, "}", LineBreak>>

InitCheck ==
  /\ RunIdle /\ EmitIdle /\ LoadIdle
  /\ pc = "parsed"
  /\ moduleApis \in ApiLists
  /\ parsedTypes = TypesFor(moduleApis)
  /\ existingTypes = FileAbsent
  /\ existingApi = FileAbsent
  /\ declared = <<>>
  /\ exported = {}
  /\ report = <<>>
  /\ moduleTypes = <<>> /\ typeChanges = <<>>
  /\ NameIdle /\ PathIdle /\ CfgIdle /\ MergeIdle /\ ParseIdle

\* update.ts runUpdate for the module, on an output directory without it:
\* generateModuleTypes, then generateModuleApi
UpdateFresh ==
  /\ pc = "parsed"
  /\ ~existingTypes.exists /\ ~existingApi.exists /\ declared = <<>>
  /\ Len(moduleApis) > 0
  /\ \E style \in Styles :
       LET cfg == [defaultConfig EXCEPT !.requestStyle = style]
           collected == collectModuleTypes(moduleApis, parsedTypes, cfg)
       IN /\ existingTypes' =
               File(generateTypesFileText(collected, moduleApis, cfg))
          /\ existingApi' = File(ApiFileText(moduleApis, cfg))
          /\ declared' = DeclaredBy(collected, moduleApis)
  /\ exported' = {moduleApis[i].functionName : i \in 1..Len(moduleApis)}
  /\ UNCHANGED <<pc, parsedTypes, moduleApis, report, moduleTypes, typeChanges,
                 restOfCheck>>

\* a developer adds a call after the generated block
EditApi ==
  /\ pc = "parsed"
  /\ existingApi.exists /\ "helper" \notin exported
  /\ existingApi' = File(existingApi.content \o HandWrittenCall)
  /\ exported' = exported \cup {"helper"}
  /\ UNCHANGED <<pc, parsedTypes, moduleApis, existingTypes, declared, report,
                 moduleTypes, typeChanges, restOfCheck>>

\* a developer deletes the type file or the function file
RemoveFile ==
  /\ pc = "parsed"
  /\ existingTypes.exists /\ existingApi.exists
  /\ \/ existingTypes' = FileAbsent /\ UNCHANGED <<existingApi, exported>>
     \/ existingApi' = FileAbsent /\ exported' = {} /\ UNCHANGED existingTypes
  /\ UNCHANGED <<pc, parsedTypes, moduleApis, declared, report, moduleTypes,
                 typeChanges, restOfCheck>>

\* the document changes: parseSwagger returns another model
ChangeModule ==
  /\ pc = "parsed"
  /\ moduleApis' \in ApiLists \ {moduleApis}
  /\ parsedTypes' = TypesFor(moduleApis')
  /\ pc' = "changed"
  /\ UNCHANGED <<existingTypes, existingApi, declared, exported, report,
                 moduleTypes, typeChanges, restOfCheck>>

\* check.ts runCheck / detectChanges for the module: the loop of
\* detectChanges runs over the modules that have operations
CheckModule ==
  /\ pc \in {"parsed", "changed"}
  /\ report' =
       IF Len(moduleApis) > 0
       THEN ModuleChangeReports(ModuleName,
                                TypesOfModule(parsedTypes, ModuleName),
                                moduleApis, existingTypes, existingApi,
                                defaultConfig)
       ELSE <<>>
  /\ pc' = "checked"
  /\ UNCHANGED <<parsedTypes, moduleApis, existingTypes, existingApi, declared,
                 exported, moduleTypes, typeChanges, restOfCheck>>

NextCheck == UpdateFresh \/ EditApi \/ RemoveFile \/ ChangeModule \/ CheckModule

SpecCheck == InitCheck /\ [][NextCheck]_vars

(***************************************************************************)
(* Claims on the check command                                             *)
(***************************************************************************)
\* the changes the last check reported for the module
ReportedTypes == IF report = <<>> THEN <<>> ELSE report[1].typeChanges
ReportedApis == IF report = <<>> THEN <<>> ELSE report[1].apiChanges

\* the names of the new types of the module
NewTypeNames ==
  LET new == TypesOfModule(parsedTypes, ModuleName)
  IN {new[i].name : i \in 1..Len(new)}

\* the names the prior type file declares, all of them or the interfaces
DeclaredTypeNames ==
  IF existingTypes.exists
  THEN {declared[i].name : i \in 1..Len(declared)} ELSE {}
DeclaredInterfaceNames ==
  IF existingTypes.exists
  THEN {declared[i].name : i \in {k \in 1..Len(declared) : declared[k].interface}}
  ELSE {}

TypeReported(name, change) ==
  \E i \in 1..Len(ReportedTypes) :
    /\ ReportedTypes[i].typeName = name
    /\ ReportedTypes[i].changeType = change
ApiReported(name, change) ==
  \E i \in 1..Len(ReportedApis) :
    /\ ReportedApis[i].functionName = name
    /\ ReportedApis[i].changeType = change

NewApiNames == {moduleApis[i].functionName : i \in 1..Len(moduleApis)}

\* the rules of the type-level diff, with agreed the declared names on
\* which a regenerated type is neither added nor removed
TypeDiffRules(agreed) ==
  (pc = "checked" /\ Len(moduleApis) > 0) =>
    /\ existingTypes.exists =>
         /\ \A n \in NewTypeNames \ DeclaredTypeNames : TypeReported(n, "added")
         /\ \A n \in DeclaredTypeNames \ NewTypeNames : TypeReported(n, "removed")
         /\ \A n \in agreed \cap NewTypeNames :
              ~TypeReported(n, "added") /\ ~TypeReported(n, "removed")
    /\ ~existingTypes.exists =>
         \A n \in NewTypeNames : TypeReported(n, "added")
    /\ ~existingApi.exists =>
         \A n \in NewApiNames : ApiReported(n, "added")

\* C11: after a check of the module, a new type whose name the prior type
\* file does not declare is reported added, a declared name with no new
\* type is reported removed, a type both declared and generated anew is
\* reported neither added nor removed; without the prior type file every
\* new type is added, without the prior function file every operation is.
C11_TypeDiff == TypeDiffRules(DeclaredTypeNames)

\* the same rules with the third one read on the declared interfaces only
C11_TypeDiffOfInterfaces == TypeDiffRules(DeclaredInterfaceNames)

\* a check finds the alias Role declared and generated anew
C11_AliasChecked ==
  /\ pc = "checked" /\ existingTypes.exists
  /\ "Role" \in DeclaredTypeNames \cap NewTypeNames

\* the call names the prior function file exports, none without the file
PriorApiNames == IF existingApi.exists THEN exported ELSE {}

MaxRuns == 2

TAG_MAPPING_FILE == <<"tag-mapping.json">>

\* a plain file and a module directory of the output directory
Plain(c) == [isDirectory |-> FALSE, content |-> c]
Dir(typesTs, indexTs) == [isDirectory |-> TRUE, types |-> typesTs, index |-> indexTs]

\* obj[key] = value, key in obj, and the object as a table
ObjHas(obj, key) == \E i \in 1..Len(obj) : obj[i].key = key
ObjSet(obj, key, value) ==
  IF ObjHas(obj, key)
  THEN [i \in 1..Len(obj) |->
          IF obj[i].key = key THEN [key |-> key, value |-> value] ELSE obj[i]]
  ELSE Append(obj, [key |-> key, value |-> value])
AsTable(obj) ==
  [k \in {obj[i].key : i \in 1..Len(obj)} |->
     obj[CHOOSE i \in 1..Len(obj) : obj[i].key = k].value]

\* the dir with the entry put in, and without the entries of a set
Put(dir, name, entry) ==
  [n \in DOMAIN dir \cup {name} |-> IF n = name THEN entry ELSE dir[n]]
Without(dir, names) == [n \in DOMAIN dir \ names |-> dir[n]]

\* the tokens of a JSON text: a string literal or a punctuation mark
Str(chars) == [string |-> chars]
Punct(mark) == [punct |-> mark]

\* JSON.stringify(mapping, null, 2) of an object of strings
RECURSIVE StringifyMembers(_)
StringifyMembers(obj) ==
  IF obj = <<>> THEN <<>>
  ELSE <<Str(Head(obj).key), Punct(":"), Str(Head(obj).value)>>
         \o (IF Len(obj) > 1 THEN <<Punct(",")>> ELSE <<>>)
         \o StringifyMembers(Tail(obj))
JSONstringify(obj) == <<Punct("{")>> \o StringifyMembers(obj) \o <<Punct("}")>>

\* JSON.parse of a text: the object of strings it denotes, or an exception
ParseFailed == [ok |-> FALSE, value |-> <<>>]
RECURSIVE ParseMembers(_, _, _)
ParseMembers(text, i, obj) ==
  IF /\ i + 3 <= Len(text)
     /\ Has(text[i], "string") /\ text[i + 1] = Punct(":")
     /\ Has(text[i + 2], "string")
  THEN LET next == ObjSet(obj, text[i].string, text[i + 2].string) IN
       IF text[i + 3] = Punct(",") THEN ParseMembers(text, i + 4, next)
       ELSE IF text[i + 3] = Punct("}") /\ i + 3 = Len(text)
       THEN [ok |-> TRUE, value |-> next]
       ELSE ParseFailed
  ELSE ParseFailed
JSONparse(text) ==
  IF Len(text) >= 2 /\ text[1] = Punct("{")
  THEN IF Len(text) = 2 /\ text[2] = Punct("}")
       THEN [ok |-> TRUE, value |-> <<>>]
       ELSE ParseMembers(text, 2, <<>>)
  ELSE ParseFailed

\* a call of fs the run made: what, on which entry, on which file in it
Call(op, entry, file) == [op |-> op, entry |-> entry, file |-> file]

\* tagMapping.ts loadTagMappingFromFile: the table, and the calls made
loadTagMappingFromFile(dir) ==
  IF TAG_MAPPING_FILE \notin DOMAIN dir
  THEN [value |-> <<>>, calls |-> <<>>]
  ELSE LET parsed == JSONparse(dir[TAG_MAPPING_FILE].content)
       IN [value |-> IF parsed.ok THEN parsed.value ELSE <<>>,
           calls |-> <<Call("read", TAG_MAPPING_FILE, "")>>]

\* tagMapping.ts saveTagMapping
saveTagMapping(dir, table) == Put(dir, TAG_MAPPING_FILE, Plain(JSONstringify(table)))

Chars_constructor == <<"c","o","n","s","t","r","u","c","t","o","r">>
Chars_toString == <<"t","o","S","t","r","i","n","g">>

\* names every object inherits from Object.prototype
ObjectPrototypeNames == {Chars_constructor, Chars_toString}

\* key in obj: a member of the object itself, or an inherited one
InObject(obj, key) == ObjHas(obj, key) \/ key \in ObjectPrototypeNames

\* the loop of updateTagMapping over the tags from the k-th on
RECURSIVE AddNewTags(_, _, _)
AddNewTags(tagList, k, acc) ==
  IF k > Len(tagList) THEN acc
  ELSE IF InObject(acc.mapping, tagList[k]) THEN AddNewTags(tagList, k + 1, acc)
  ELSE AddNewTags(tagList, k + 1,
                  [mapping |-> ObjSet(acc.mapping, tagList[k], tagList[k]),
                   newTags |-> Append(acc.newTags, tagList[k])])

\* an updateTagMapping that extends the configured object itself
updateTagMapping_noCopy(dir, tagList, configMapping) ==
  LET hasConfigMapping == Len(configMapping) > 0
      loaded == IF hasConfigMapping THEN [value |-> configMapping, calls |-> <<>>]
                ELSE loadTagMappingFromFile(dir)
      result == AddNewTags(tagList, 1, [mapping |-> loaded.value, newTags |-> <<>>])
      saves == ~hasConfigMapping /\ Len(result.newTags) > 0
  IN [mapping |-> result.mapping, newTags |-> result.newTags,
      configMapping |-> IF hasConfigMapping THEN result.mapping ELSE configMapping,
      outputDir |-> IF saves THEN saveTagMapping(dir, result.mapping) ELSE dir,
      calls |-> loaded.calls
                  \o (IF saves THEN <<Call("write", TAG_MAPPING_FILE, "")>>
                      ELSE <<>>)]

\* tagMapping.ts updateTagMapping: the table and the new tags returned, the
\* configured object and the output directory after the call, the calls made
updateTagMapping(dir, tagList, configMapping) ==
  LET hasConfigMapping == Len(configMapping) > 0
      \* { ...configMapping } is a new object with the same members
      loaded == IF hasConfigMapping THEN [value |-> configMapping, calls |-> <<>>]
                ELSE loadTagMappingFromFile(dir)
      result == AddNewTags(tagList, 1, [mapping |-> loaded.value, newTags |-> <<>>])
      saves == ~hasConfigMapping /\ Len(result.newTags) > 0
  IN [mapping |-> result.mapping, newTags |-> result.newTags,
      configMapping |-> configMapping,
      outputDir |-> IF saves THEN saveTagMapping(dir, result.mapping) ELSE dir,
      calls |-> loaded.calls
                  \o (IF saves THEN <<Call("write", TAG_MAPPING_FILE, "")>>
                      ELSE <<>>)]

\* the names of a set in some order, as readdirSync returns them
RECURSIVE Listing(_)
Listing(names) ==
  IF names = {} THEN <<>>
  ELSE LET n == CHOOSE x \in names : TRUE IN <<n>> \o Listing(names \ {n})

\* a cleaning that removes every entry
cleanOutputEntries_all(dir) ==
  [outputDir |-> Without(dir, DOMAIN dir),
   calls |-> [i \in 1..Len(Listing(DOMAIN dir)) |->
                Call("delete", Listing(DOMAIN dir)[i], "")]]

\* update.ts cleanOutputDir: the directory after it, and the calls made
cleanOutputEntries(dir) ==
  LET removed == DOMAIN dir \ {TAG_MAPPING_FILE}
  IN [outputDir |-> Without(dir, removed),
      calls |-> [i \in 1..Len(Listing(removed)) |->
                   Call("delete", Listing(removed)[i], "")]]

\* the operations of the document under a tag
OperationsOf(tag) ==
  IF tag = Chars_User THEN <<Op_getUsers, Op_postUsers>> ELSE <<Op_getOrders>>

\* parseSwagger's apis: the operations of each tag pushed to the module of
\* the tag, from the k-th tag and the j-th operation on
RECURSIVE ParseApis(_, _, _, _, _)
ParseApis(tagList, table, k, j, map) ==
  IF k > Len(tagList) THEN map
  ELSE IF j > Len(OperationsOf(tagList[k]))
  THEN ParseApis(tagList, table, k + 1, 1, map)
  ELSE ParseApis(tagList, table, k, j + 1,
                 MapPushOrdered(map,
                                tagToDirectoryName(applyTagMapping(tagList[k], table)),
                                OperationsOf(tagList[k])[j]))

\* an iteration that writes the type file again after the function file
generateModule_typesTwice(dir, name, list) ==
  [outputDir |->
     Put(dir, name,
         Dir(generateModuleTypes(list),
             generateModuleApi(IF name \in DOMAIN dir THEN dir[name].index
                               ELSE FileAbsent, list))),
   calls |-> <<Call("write", name, "types.ts"), Call("write", name, "index.ts"),
               Call("write", name, "types.ts")>>]

\* the iteration of the loop of runUpdate for one module: the output
\* directory after it, and the calls made
generateModule(dir, name, list) ==
  LET existed == name \in DOMAIN dir
      priorIndex == IF existed THEN dir[name].index ELSE FileAbsent
      priorTypes == IF existed THEN dir[name].types ELSE FileAbsent
  IN [outputDir |->
        Put(dir, name, Dir(generateModuleTypes(list),
                           generateModuleApi(priorIndex, list))),
      calls |-> (IF existed THEN <<>> ELSE <<Call("mkdir", name, "")>>)
                  \o <<Call("write", name, "types.ts")>>
                  \o (IF priorIndex.exists THEN <<Call("read", name, "index.ts")>>
                      ELSE <<>>)
                  \o <<Call("write", name, "index.ts")>>]

\* UpdateOptions
OptionChoices == [clean : BOOLEAN, initOnly : BOOLEAN]

Alias(tag, name) == [key |-> tag, value |-> name]

\* config.tagMapping: none, or the aliases of one or both tags
ConfigTables ==
  {<<>>, <<Alias(Chars_User, Chars_model)>>,
   <<Alias(Chars_User, Chars_model), Alias(Chars_Order, Chars_model)>>}

\* extractAllTags: the first tags of the operations, sorted
TagLists == {<<Chars_User>>, <<Chars_Order>>, <<Chars_Order, Chars_User>>}

\* what tag-mapping.json may hold: the table an earlier run saved, a table
\* edited by hand, a text cut short
PriorAliasFiles ==
  {Plain(JSONstringify(<<Alias(Chars_User, Chars_User)>>)),
   Plain(JSONstringify(<<Alias(Chars_User, Chars_internal)>>)),
   Plain(<<Punct("{"), Str(Chars_User), Punct(":")>>)}

NotesFile == <<"notes.md">>

\* the directory of the module user after an earlier run and an edit
PriorUserDir ==
  Dir(File(<<<<"export interface", "Old">>>>), File(EditedUserFile))

\* the output directory before the first run
PriorOutputDirs ==
  {a @@ d : a \in {<<>>} \cup {(TAG_MAPPING_FILE :> f) : f \in PriorAliasFiles},
            d \in {<<>>, (toCamelCase(Chars_User) :> PriorUserDir),
                   (toCamelCase(Chars_User) :> PriorUserDir)
                     @@ (NotesFile :> Plain(<<>>))}}

InitRun ==
  /\ pc = "start"
  /\ options \in OptionChoices
  /\ configTable \in ConfigTables
  /\ tags \in TagLists
  /\ outputDir \in PriorOutputDirs
  /\ runMapping = <<>> /\ newTags = <<>> /\ model = <<>> /\ moduleIndex = 0
  /\ log = <<>>
  /\ atStart = [outputDir |-> outputDir, configTable |-> configTable]
  /\ runs = 1
  /\ NameIdle /\ PathIdle /\ CfgIdle /\ MergeIdle /\ ParseIdle /\ DiffIdle
  /\ CheckIdle /\ EmitIdle /\ LoadIdle

\* runUpdate lines 27-37: the tags of the document, updateTagMapping
UpdateTagMapping ==
  /\ pc = "start"
  /\ LET result == updateTagMapping(outputDir, tags, configTable)
     IN /\ runMapping' = result.mapping
        /\ newTags' = result.newTags
        /\ configTable' = result.configMapping
        /\ outputDir' = result.outputDir
        /\ log' = log \o result.calls
  /\ pc' = "mapped"
  /\ UNCHANGED <<options, tags, model, moduleIndex, atStart, runs, restOfRun>>

\* runUpdate lines 53-61: with initOnly the run returns
InitOnlyReturn ==
  /\ pc = "mapped"
  /\ options.initOnly
  /\ pc' = "done"
  /\ UNCHANGED <<runVars, restOfRun>>

\* a cleaning that does not ask whether the run has returned
Clean_afterReturn ==
  /\ pc \in {"mapped", "done"}
  /\ options.clean
  /\ outputDir' = cleanOutputEntries(outputDir).outputDir
  /\ log' = log \o cleanOutputEntries(outputDir).calls
  /\ pc' = "cleaned"
  /\ UNCHANGED <<options, configTable, tags, runMapping, newTags, model,
                 moduleIndex, atStart, runs, restOfRun>>

\* runUpdate lines 67-70: cleanOutputDir when the clean option is set
Clean ==
  /\ pc = "mapped"
  /\ ~options.initOnly
  /\ LET result == IF options.clean THEN cleanOutputEntries(outputDir)
                   ELSE [outputDir |-> outputDir, calls |-> <<>>]
     IN /\ outputDir' = result.outputDir
        /\ log' = log \o result.calls
  /\ pc' = "cleaned"
  /\ UNCHANGED <<options, configTable, tags, runMapping, newTags, model,
                 moduleIndex, atStart, runs, restOfRun>>

\* runUpdate line 73: parseSwagger returns the whole model
Parse ==
  /\ pc = "cleaned"
  /\ model' = ParseApis(tags, AsTable(runMapping), 1, 1, <<>>)
  /\ moduleIndex' = 0
  /\ pc' = "generating"
  /\ UNCHANGED <<options, configTable, tags, outputDir, runMapping, newTags,
                 log, atStart, runs, restOfRun>>

\* runUpdate lines 78-93: one iteration of the loop over the modules
WriteModule ==
  /\ pc = "generating"
  /\ moduleIndex < Len(model)
  /\ LET entry == model[moduleIndex + 1]
         result == generateModule(outputDir, entry.key, entry.value)
     IN /\ outputDir' = result.outputDir
        /\ log' = log \o result.calls
  /\ moduleIndex' = moduleIndex + 1
  /\ UNCHANGED <<pc, options, configTable, tags, runMapping, newTags, model,
                 atStart, runs, restOfRun>>

\* runUpdate lines 95-97: the loop is over, the run returns
Finish ==
  /\ pc = "generating"
  /\ moduleIndex = Len(model)
  /\ pc' = "done"
  /\ UNCHANGED <<runVars, restOfRun>>

\* the command is run again, on the document as it is then
StartRun ==
  /\ pc = "done"
  /\ runs < MaxRuns
  /\ options' \in OptionChoices
  /\ tags' \in TagLists
  /\ runMapping' = <<>> /\ newTags' = <<>> /\ model' = <<>> /\ moduleIndex' = 0
  /\ log' = <<>>
  /\ atStart' = [outputDir |-> outputDir, configTable |-> configTable]
  /\ runs' = runs + 1
  /\ pc' = "start"
  /\ UNCHANGED <<configTable, outputDir, restOfRun>>

NextRun ==
  \/ UpdateTagMapping \/ InitOnlyReturn \/ Clean \/ Parse \/ WriteModule
  \/ Finish \/ StartRun

SpecRun == InitRun /\ [][NextRun]_vars

(***************************************************************************)
(* Claims on the update command                                            *)
(***************************************************************************)
AliasNames == {Chars_User, Chars_Order, Chars_model, Chars_internal}

\* the tables of at most two tags
KnownTables ==
  {<<>>}
    \cup {<<Alias(t, n)>> : t \in {Chars_User, Chars_Order}, n \in AliasNames}
    \cup {<<Alias(t, n), Alias(u, m)>> :
            t \in {Chars_User, Chars_Order}, u \in {Chars_User, Chars_Order},
            n \in AliasNames, m \in AliasNames}

\* the table the alias file of a directory denotes: that of the JSON text
\* of a table, none for another text or without the file
DenotedTable(dir) ==
  IF /\ TAG_MAPPING_FILE \in DOMAIN dir
     /\ \E t \in KnownTables :
          /\ \A i, j \in 1..Len(t) : t[i].key = t[j].key => i = j
          /\ dir[TAG_MAPPING_FILE].content = JSONstringify(t)
  THEN CHOOSE t \in KnownTables : dir[TAG_MAPPING_FILE].content = JSONstringify(t)
  ELSE <<>>

\* the calls of the run on the alias file
AliasFileCalls == SelectSeq(log, LAMBDA c : c.entry = TAG_MAPPING_FILE)

\* the alias file of a directory, absent or with its content
AliasFileOf(dir) ==
  IF TAG_MAPPING_FILE \in DOMAIN dir THEN File(dir[TAG_MAPPING_FILE].content)
  ELSE FileAbsent

\* the tags of the run the table does not have, in the order of the tags
TagsNotIn(table) == SelectSeq(tags, LAMBDA t : ~ObjHas(table, t))

\* the table with an identity alias appended for each of the tags
WithIdentity(table, tagList) ==
  table \o [i \in 1..Len(tagList) |-> Alias(tagList[i], tagList[i])]

\* C13: in an update run with a non-empty configured alias table, that table
\* (with an identity alias for each tag it lacks) is the one used, the alias
\* file is neither read nor written and the configured object is as before
\* the run; with an empty configured table the table is the one the alias
\* file denotes (none if the file is absent or not JSON), extended the same
\* way, and the file is written, once and with the table used, exactly when
\* there is a new tag.
C13_AliasTable ==
  pc # "start" =>
    IF Len(atStart.configTable) > 0
    THEN /\ runMapping =
              WithIdentity(atStart.configTable, TagsNotIn(atStart.configTable))
         /\ newTags = TagsNotIn(atStart.configTable)
         /\ AliasFileCalls = <<>>
         /\ AliasFileOf(outputDir) = AliasFileOf(atStart.outputDir)
         /\ configTable = atStart.configTable
    ELSE LET loaded == DenotedTable(atStart.outputDir) IN
         /\ runMapping = WithIdentity(loaded, TagsNotIn(loaded))
         /\ newTags = TagsNotIn(loaded)
         /\ configTable = <<>>
         /\ \A i \in 1..Len(AliasFileCalls) :
              AliasFileCalls[i].op = "write" => newTags # <<>> /\ i = Len(AliasFileCalls)
         /\ IF newTags # <<>>
            THEN /\ AliasFileCalls # <<>>
                 /\ AliasFileCalls[Len(AliasFileCalls)].op = "write"
                 /\ AliasFileOf(outputDir) = File(JSONstringify(runMapping))
            ELSE AliasFileOf(outputDir) = AliasFileOf(atStart.outputDir)

\* a finished run with a configured table that lacks a tag of the document,
\* over a directory that has an alias file
C13_Witness ==
  /\ pc = "done" /\ ~options.initOnly
  /\ Len(atStart.configTable) > 0 /\ newTags # <<>>
  /\ TAG_MAPPING_FILE \in DOMAIN atStart.outputDir

\* a finished run without a configured table over an alias file that is
\* not JSON, with new tags
C13_WitnessFile ==
  /\ pc = "done" /\ atStart.configTable = <<>> /\ Len(newTags) = 2
  /\ TAG_MAPPING_FILE \in DOMAIN atStart.outputDir
  /\ DenotedTable(atStart.outputDir) = <<>>

\* the places in the log of the writes of module files
ModuleWrites ==
  {i \in 1..Len(log) : log[i].op = "write" /\ log[i].entry # TAG_MAPPING_FILE}

\* the entries the output directory had before the run, but the alias file
PriorEntries == DOMAIN atStart.outputDir \ {TAG_MAPPING_FILE}

\* the modules the loop of the run has written
ModulesWritten == {model[k].key : k \in 1..moduleIndex}

\* C14: in an update run with the clean option, once the alias table is
\* updated the alias file is, to the end of the run, the one written by the
\* run or else the one found, with that content; and before any file of a
\* module is written every other entry the output directory had has been
\* deleted, so that the directory then holds the alias file and the newly
\* written modules only, none of them merged with a prior file.
C14_CleanKeepsAliasFile ==
  (options.clean /\ pc # "start") =>
    /\ AliasFileOf(outputDir) =
         IF \E i \in 1..Len(AliasFileCalls) : AliasFileCalls[i].op = "write"
         THEN File(JSONstringify(runMapping))
         ELSE AliasFileOf(atStart.outputDir)
    /\ \A i \in ModuleWrites : \A e \in PriorEntries :
         \E j \in 1..(i - 1) : log[j] = Call("delete", e, "")
    /\ pc \in {"cleaned", "generating", "done"} /\ ~options.initOnly =>
         /\ DOMAIN outputDir \ {TAG_MAPPING_FILE} = ModulesWritten
         /\ \A k \in 1..moduleIndex :
              outputDir[model[k].key] =
                Dir(File(generateTypesFile(model[k].value)),
                    File(generateApiFile(model[k].value)))

\* a finished cleaning run over a directory with an alias file, an edited
\* module user and a file of the developer's, that wrote the module user
C14_Witness ==
  /\ pc = "done" /\ options.clean /\ ~options.initOnly
  /\ {TAG_MAPPING_FILE, toCamelCase(Chars_User), NotesFile}
       \subseteq DOMAIN atStart.outputDir
  /\ toCamelCase(Chars_User) \in ModulesWritten
  /\ NotesFile \notin DOMAIN outputDir

\* the entries of a directory but the alias file
OtherEntries(dir) == Without(dir, {TAG_MAPPING_FILE})

\* C15: in an update run with initOnly the run returns right after the
\* update of the alias table: the model is never computed, no call is made
\* on anything but the alias file, and every other entry of the output
\* directory (module directories with their type and function files, other
\* files) is as before the run, also when clean is set.
C15_InitOnly ==
  options.initOnly =>
    /\ pc \in {"start", "mapped", "done"}
    /\ model = <<>> /\ moduleIndex = 0
    /\ \A i \in 1..Len(log) : log[i].entry = TAG_MAPPING_FILE
    /\ OtherEntries(outputDir) = OtherEntries(atStart.outputDir)

\* a returned run with initOnly and clean that wrote the alias file, over a
\* directory with an edited module and a file of the developer's
C15_Witness ==
  /\ pc = "done" /\ options.initOnly /\ options.clean
  /\ {toCamelCase(Chars_User), NotesFile} \subseteq DOMAIN atStart.outputDir
  /\ \E i \in 1..Len(log) : log[i].op = "write"
  /\ AliasFileOf(outputDir) # AliasFileOf(atStart.outputDir)

\* the writes of a file of a module in the log
WritesOf(name, file) ==
  {i \in 1..Len(log) : log[i] = Call("write", name, file)}

\* no file of a module is written before the whole model is computed, and
\* a run that generates writes the two files of each module once
WritesAfterModel ==
  /\ ModuleWrites # {} =>
       /\ pc \in {"generating", "done"}
       /\ model = ParseApis(tags, AsTable(runMapping), 1, 1, <<>>)
  /\ \A i \in ModuleWrites : log[i].entry \in ModulesWritten
  /\ \A k \in 1..moduleIndex :
       /\ Cardinality(WritesOf(model[k].key, "types.ts")) = 1
       /\ Cardinality(WritesOf(model[k].key, "index.ts")) = 1
  /\ (pc = "done" /\ ~options.initOnly) => moduleIndex = Len(model)

\* C20: in an update run no file of a module is written before the whole
\* model is computed, the type file and the function file of each module
\* are written exactly once, and until the first of those writes every
\* entry of the output directory but the alias file is as before the run.
C20_WriteOrdering ==
  /\ WritesAfterModel
  /\ ModuleWrites = {} => OtherEntries(outputDir) = OtherEntries(atStart.outputDir)

\* C20, the last part for the runs that do not clean: no file of a module
\* is written before the whole model is computed, the type file and the
\* function file of each module are written exactly once, and in a run
\* without the clean option every entry of the output directory but the
\* alias file is as before the run until the first of those writes.
C20_WriteOrderingKeeping ==
  /\ WritesAfterModel
  /\ (ModuleWrites = {} /\ ~options.clean) =>
       OtherEntries(outputDir) = OtherEntries(atStart.outputDir)

\* a finished run without clean that wrote two modules, one of them over
\* the edited files of an earlier run
C20_Witness ==
  /\ pc = "done" /\ ~options.clean /\ ~options.initOnly
  /\ Len(model) = 2
  /\ toCamelCase(Chars_User) \in DOMAIN atStart.outputDir \cap ModulesWritten

\* a cleaning run has emptied a directory with an edited module before it
\* has computed the model
C20_CleanedBeforeModel ==
  /\ pc = "cleaned" /\ model = <<>>
  /\ toCamelCase(Chars_User) \in DOMAIN atStart.outputDir
  /\ toCamelCase(Chars_User) \notin DOMAIN outputDir

(***************************************************************************)
(* The generators applied to the operations and types of a module          *)
(***************************************************************************)
MaxEmitted == 2

Chars_idx == <<"i","d","x">>
Chars_token == <<"t","o","k","e","n">>

\* config.excludeFields
ExcludeLists == {<<>>, <<Chars_token>>, <<Chars_token, Chars_city>>}

\* schemas of a module: an object, an allOf of a reference and an object,
\* an object with a property that is an object, or a list of objects
OrderSchemas ==
  {[type |-> "object",
    properties |-> <<Prop("id", Prim("integer")), Prop("token", Prim("string")),
                     Prop("name", Prim("string"))>>,
    required |-> <<"id", "token">>],
   [allOf |-> <<Ref(Prefix2, "User"),
                Object(<<Prop("token", Prim("string")),
                         Prop("age", Prim("integer"))>>)>>],
   Object(<<Prop("name", Prim("string")),
            Prop("address", Object(<<Prop("city", Prim("string")),
                                     Prop("token", Prim("string"))>>))>>),
   Object(<<Prop("name", Prim("string")),
            Prop("address", Object(<<Prop("age", Prim("integer"))>>))>>),
   Object(<<Prop("owner", ArrayOf(Object(<<Prop("token", Prim("string"))>>)))>>)}

\* query parameters of an operation, as parseOperation keeps them
TokenParam == [name |-> "token", in |-> "query", type |-> "string"]
QueryLists == {<<>>, <<PageParam>>, <<PageParam, TokenParam>>}

\* the type file of a module: its types, its operations, the configuration
TypeInputs ==
  {[kind |-> "types", types |-> <<[name |-> "Order", schema |-> s]>>,
    apis |-> <<Api("getUsers", Chars_get, Chars_slashUsers, q, Undefined,
                   <<"Order">>, <<>>)>>,
    cfg |-> [defaultConfig EXCEPT !.excludeFields = ex]] :
     s \in OrderSchemas, q \in QueryLists, ex \in ExcludeLists}

\* a path parameter as the document declares it
PathParam(name) == [name |-> name, in |-> "path", type |-> "integer"]

\* a cleaned path, given by its segments, with its path parameters in the
\* order the document declares them
PathOf(ss, params) ==
  [segs |-> ss, cleanPath |-> RenderPath(ss), pathParams |-> params]

PathChoices ==
  {PathOf(<<Lit(Chars_orders)>>, <<>>),
   PathOf(<<Lit(Chars_orders), Brace(Chars_id)>>, <<PathParam("id")>>),
   PathOf(<<Lit(Chars_orders), Colon(Chars_id)>>,
          <<[name |-> "id", in |-> "path"]>>),
   PathOf(<<Lit(Chars_orders), Brace(Chars_id), Lit(Chars_items),
            Brace(Chars_itemId)>>,
          <<PathParam("id"), PathParam("itemId")>>),
   PathOf(<<Lit(Chars_orders), Colon(Chars_idx), Lit(Chars_items),
            Colon(Chars_id)>>,
          <<PathParam("idx"), PathParam("id")>>),
   PathOf(<<Lit(Chars_orders), Colon(Chars_idx), Lit(Chars_items),
            Colon(Chars_id)>>,
          <<PathParam("id"), PathParam("idx")>>),
   PathOf(<<Lit(Chars_orders), Brace(Chars_id), Lit(Chars_items),
            Brace(Chars_id)>>,
          <<PathParam("id")>>)}

\* an operation handed to generateApiFunction, with the style configured
FunctionInputs ==
  {[kind |-> "function", segs |-> p.segs,
    api |-> [functionName |-> "getUsers", method |-> verb,
             path |-> Chars_api \o p.cleanPath, cleanPath |-> p.cleanPath,
             tag |-> ModuleName, pathParams |-> p.pathParams,
             queryParams |-> IF params = Undefined THEN <<>> ELSE <<PageParam>>,
             paramsTypeName |-> params, bodyTypeName |-> body,
             responseTypeName |-> <<"Order">>],
    cfg |-> [defaultConfig EXCEPT !.requestStyle = style]] :
     verb \in {Chars_get, Chars_post}, p \in PathChoices,
     params \in {Undefined, <<"GetUsersParams">>},
     body \in {Undefined, <<"Order">>}, style \in Styles}

\* the type names parseOperation and schemaTypeToTs give a response
ResponseTypeNames ==
  {Undefined, <<"User">>, <<"User", "[", "]">>, <<"Order">>, <<"unknown">>,
   <<"string", "[", "]">>, <<"string", "[", "]", "[", "]">>,
   <<"Record", "<", "string", ",", Blank, "unknown", ">">>}

\* an operation of a function file
ImportApi(name, params, body, response) ==
  [functionName |-> name, method |-> Chars_post, path |-> Chars_slashUsers,
   cleanPath |-> Chars_slashUsers, tag |-> ModuleName, pathParams |-> <<>>,
   queryParams |-> IF params = Undefined THEN <<>> ELSE <<PageParam>>,
   paramsTypeName |-> params, bodyTypeName |-> body,
   responseTypeName |-> response]

\* the operations of a function file
ImportInputs ==
  {[kind |-> "imports", apis |-> l, cfg |-> defaultConfig] :
     l \in {x \in {a \o b :
                     a \in {<<ImportApi("postUsers", p, b1, r1)>> :
                              p \in {Undefined, <<"GetUsersParams">>},
                              b1 \in {Undefined, <<"User">>},
                              r1 \in ResponseTypeNames},
                     b \in Optional({ImportApi("getOrders", Undefined, Undefined, r2) :
                                       r2 \in {<<"Order">>, <<"User">>}})} :
              Len(x) <= MaxEmitted}}

\* a query or header parameter of the document: its name, its type tag,
\* its enumerated values if it has any
ParamChoices ==
  {[name |-> "page", in |-> "query", type |-> "integer", required |-> TRUE],
   [name |-> "status", in |-> "query", type |-> "string",
    enum |-> <<[string |-> "admin"], [string |-> "guest"]>>],
   [name |-> "name", in |-> "query", type |-> "boolean"],
   [name |-> "age", in |-> "query"],
   [name |-> "token", in |-> "query", type |-> "string"],
   [name |-> "-", in |-> "query", type |-> "string"],
   [name |-> "", in |-> "query", type |-> "string"],
   [name |-> "idx", in |-> "header", type |-> "string"]}

Dialects == {"swagger2", "openapi3"}

\* the parameter as a Swagger 2.0 document and as an OpenAPI 3.0 document
\* declare it
DeclaredParam(p, dialect) ==
  IF dialect = "swagger2" THEN p
  ELSE LET schema ==
             (IF Has(p, "type") THEN [type |-> p.type] ELSE <<>>)
               @@ (IF Has(p, "enum") THEN [enum |-> p.enum] ELSE <<>>)
       IN [name |-> p.name, in |-> p.in, schema |-> schema]
            @@ (IF Has(p, "required") THEN [required |-> p.required] ELSE <<>>)

\* the parameters of an operation of a document, in either dialect
ParamInputs ==
  {[kind |-> "params", dialect |-> d, given |-> l,
    parameters |-> [i \in 1..Len(l) |-> DeclaredParam(l[i], d)],
    cfg |-> [defaultConfig EXCEPT !.excludeFields = ex]] :
     d \in Dialects, ex \in {<<>>, <<Chars_token>>},
     l \in {x \in {a \o b : a \in {<<p>> : p \in ParamChoices},
                            b \in Optional(ParamChoices)} :
              /\ Len(x) <= MaxEmitted
              /\ \A i, j \in 1..Len(x) : x[i].name = x[j].name => i = j}}

\* parser.ts parseOperation, lines 304-327: the query parameters kept
queryParamsOf(parameters) == SelectSeq(parameters, LAMBDA p : p.in = "query")

\* parser.ts parseOpenAPI3Operation, lines 432-451: each parameter is
\* converted to the internal format, the query parameters are kept
queryParamsOf3(parameters) ==
  LET internalParam(param) ==
        [name |-> param.name, in |-> param.in, schema |-> param.schema]
          @@ (IF Has(param, "required") THEN [required |-> param.required]
              ELSE <<>>)
          @@ (IF Has(param.schema, "type") THEN [type |-> param.schema.type]
              ELSE <<>>)
  IN SelectSeq([i \in 1..Len(parameters) |-> internalParam(parameters[i])],
               LAMBDA p : p.in = "query")

InitEmit ==
  /\ pc = "input"
  /\ emitInput \in TypeInputs \cup FunctionInputs \cup ImportInputs \cup ParamInputs
  /\ emitText = <<>>
  /\ NameIdle /\ PathIdle /\ CfgIdle /\ MergeIdle /\ ParseIdle /\ DiffIdle
  /\ CheckIdle /\ RunIdle /\ LoadIdle

\* typeGenerator.ts generateTypesFile for the types and operations
EmitTypesFile ==
  /\ pc = "input" /\ emitInput.kind = "types"
  /\ emitText' = generateTypesFileText(emitInput.types, emitInput.apis,
                                       emitInput.cfg)
  /\ pc' = "emitted"
  /\ UNCHANGED <<emitInput, restOfEmit>>

\* apiGenerator.ts generateApiFunction for the operation
EmitFunction ==
  /\ pc = "input" /\ emitInput.kind = "function"
  /\ emitText' = FunctionText(emitInput.api, emitInput.cfg)
  /\ pc' = "emitted"
  /\ UNCHANGED <<emitInput, restOfEmit>>

\* apiGenerator.ts generateImports for the operations
EmitImports ==
  /\ pc = "input" /\ emitInput.kind = "imports"
  /\ emitText' = Join(ImportLines(emitInput.apis, emitInput.cfg), <<LineBreak>>)
  /\ pc' = "emitted"
  /\ UNCHANGED <<emitInput, restOfEmit>>

\* the operation parseOperation / parseOpenAPI3Operation returns for the
\* declared parameters
ParsedWithParams(input) ==
  LET query == IF input.dialect = "swagger2" THEN queryParamsOf(input.parameters)
               ELSE queryParamsOf3(input.parameters)
  IN Api("getUsers", Chars_get, Chars_slashUsers, query, Undefined, Undefined, <<>>)

\* a parse of the operation, then generateTypesFile for it
EmitParamsType ==
  /\ pc = "input" /\ emitInput.kind = "params"
  /\ emitText' = generateTypesFileText(<<>>, <<ParsedWithParams(emitInput)>>,
                                       emitInput.cfg)
  /\ pc' = "emitted"
  /\ UNCHANGED <<emitInput, restOfEmit>>

NextEmit == EmitTypesFile \/ EmitFunction \/ EmitImports \/ EmitParamsType

SpecEmit == InitEmit /\ [][NextEmit]_vars

(***************************************************************************)
(* Claims on the generators                                                *)
(***************************************************************************)
\* the places of a text at which a property is declared: a name, then a
\* colon or a question mark and a colon
PropertyPlaces(text) ==
  {i \in 1..(Len(text) - 1) :
     /\ text[i] \in DOMAIN Words
     /\ \/ text[i + 1] = ":"
        \/ text[i + 1] = "?" /\ i + 2 <= Len(text) /\ text[i + 2] = ":"}

\* the names of the properties a text declares, at any depth
PropertiesIn(text) == {text[i] : i \in PropertyPlaces(text)}

ExcludedWords(cfg) == {w \in DOMAIN Words : Words[w] \in Range(cfg.excludeFields)}

\* the input has an excluded field in an object that is the type of a
\* property or the item type of one
RECURSIVE ExcludedInside(_, _)
ExcludedInside(schema, cfg) ==
  /\ Has(schema, "properties")
  /\ \E i \in 1..Len(schema.properties) :
       LET p == schema.properties[i].schema
           inner == IF Has(p, "items") THEN p.items ELSE p
       IN /\ Has(inner, "properties")
          /\ \/ \E j \in 1..Len(inner.properties) :
                  inner.properties[j].name \in ExcludedWords(cfg)
             \/ ExcludedInside(inner, cfg)

\* C16: the type file emitted for the types and operations of a module
\* declares no property whose name is in config.excludeFields, neither in
\* an interface, nor in an interface merged from allOf, nor in a query
\* parameters type, nor in the inline object type of a property.
C16_NoExcludedField ==
  (pc = "emitted" /\ emitInput.kind = "types") =>
    PropertiesIn(emitText) \cap ExcludedWords(emitInput.cfg) = {}

\* the same for the inputs without an excluded field inside an inline object
C16_NoExcludedFieldAtTop ==
  (/\ pc = "emitted" /\ emitInput.kind = "types"
   /\ ~ExcludedInside(emitInput.types[1].schema, emitInput.cfg)) =>
    PropertiesIn(emitText) \cap ExcludedWords(emitInput.cfg) = {}

\* a type file emitted with token excluded for an allOf of a reference and
\* an object that has token, and for query parameters that have token
C16_ExcludedAtTop ==
  /\ pc = "emitted" /\ emitInput.kind = "types"
  /\ "token" \in ExcludedWords(emitInput.cfg)
  /\ Has(emitInput.types[1].schema, "allOf")
  /\ Len(emitInput.apis[1].queryParams) = 2
  /\ {"age", "page"} \subseteq PropertiesIn(emitText)

\* the first place of a token in a text that has it
FirstPlace(text, token) ==
  CHOOSE i \in 1..Len(text) : text[i] = token /\ \A k \in 1..(i - 1) : text[k] # token

\* the names of the parameters the emitted function declares, in order
DeclaredParams(text) ==
  LET head == SubSeq(text, 1, FirstPlace(text, ")"))
      places == {i \in 1..(Len(head) - 1) : head[i + 1] = ":"}
  IN [k \in 1..Cardinality(places) |->
        head[CHOOSE i \in places : Cardinality({j \in places : j <= i}) = k]]

\* the parameters the operation calls for
ExpectedParams(api) ==
  [i \in 1..Len(api.pathParams) |-> api.pathParams[i].name]
    \o (IF api.bodyTypeName # Undefined THEN <<"data">> ELSE <<>>)
    \o (IF api.paramsTypeName # Undefined THEN <<"params">> ELSE <<>>)

\* the cleaned path with every {name} and :name token replaced by ${name}
ExpectedUrl(ss) ==
  Flatten([i \in 1..Len(ss) |->
             <<"/">> \o (IF ss[i].kind = "lit" THEN ss[i].text
                         ELSE Interpolation(ss[i].text))])

\* the text has the URL as a string, quoted or as a template
HasUrl(text, url) ==
  \E delimiter \in {"'", Backtick} :
    Occurrences(text, <<delimiter>> \o url \o <<delimiter>>) # {}

\* a parameter token of the path is met twice, or begins as another does
RepeatedOrPrefixed(ss) ==
  \E i, j \in 1..Len(ss) :
    /\ i # j /\ ss[i].kind # "lit" /\ ss[j].kind # "lit"
    /\ StartsWith(ss[j].text, ss[i].text)

\* C17: the function emitted for an operation, in the chain and in the
\* object style, declares one parameter per path parameter, then data
\* exactly when the operation has a body type and params exactly when it
\* has a parameters type, and its URL is the cleaned path with every {name}
\* and :name token replaced by the interpolation of that name.
C17_ParamsAndUrl ==
  (pc = "emitted" /\ emitInput.kind = "function") =>
    /\ DeclaredParams(emitText) = ExpectedParams(emitInput.api)
    /\ HasUrl(emitText, ExpectedUrl(emitInput.segs))

\* the same for the paths in which no parameter token is repeated and none
\* begins as another does
C17_ParamsAndUrlDistinct ==
  (/\ pc = "emitted" /\ emitInput.kind = "function"
   /\ ~RepeatedOrPrefixed(emitInput.segs)) =>
    /\ DeclaredParams(emitText) = ExpectedParams(emitInput.api)
    /\ HasUrl(emitText, ExpectedUrl(emitInput.segs))

\* a function emitted in the object style for a path with two parameters,
\* a body and a parameters type
C17_TwoParams ==
  /\ pc = "emitted" /\ emitInput.kind = "function"
  /\ emitInput.cfg.requestStyle = "object"
  /\ Len(emitInput.api.pathParams) = 2 /\ ~RepeatedOrPrefixed(emitInput.segs)
  /\ DeclaredParams(emitText) = <<"id", "itemId", "data", "params">>

\* the place of the type-only import in a text, 0 if it has none
TypeImportPlace(text) ==
  LET at == Occurrences(text, <<"import", Blank, "type", Blank, "{">>)
  IN IF at = {} THEN 0 ELSE CHOOSE i \in at : \A j \in at : i <= j

\* what the type-only import of a text lists between its braces, without
\* the blanks and commas
ImportedTokens(text) ==
  LET from == TypeImportPlace(text) + 5
      rest == SubSeq(text, from, Len(text))
      listed == SubSeq(rest, 1, FirstPlace(rest, "}") - 1)
  IN IF TypeImportPlace(text) = 0 THEN <<>>
     ELSE SelectSeq(listed, LAMBDA t : t \notin {Blank, ","})

\* the declared type a type name refers to: the name without its array
\* suffixes, none for a primitive or a utility type
RECURSIVE ReferencedName(_)
ReferencedName(typeName) ==
  IF typeName = Undefined THEN {}
  ELSE IF Len(typeName) > 2 /\ SubSeq(typeName, Len(typeName) - 1, Len(typeName)) = <<"[", "]">>
  THEN ReferencedName(SubSeq(typeName, 1, Len(typeName) - 2))
  ELSE IF typeName[1] \in BUILTIN_TYPES THEN {}
  ELSE {typeName[1]}

ReferencedNames(apiList) ==
  UNION {ReferencedName(apiList[i].paramsTypeName)
           \cup ReferencedName(apiList[i].bodyTypeName)
           \cup ReferencedName(apiList[i].responseTypeName) : i \in 1..Len(apiList)}

\* the type names of the inputs, sorted
SortedNames == <<"GetUsersParams", "Order", "User">>

\* a type name that is neither a declared name nor an array of one, nor a
\* primitive, nor an array of a primitive
Compound(typeName) ==
  /\ typeName # Undefined
  /\ extractBaseTypeName(typeName) \notin {<<w>> : w \in Range(SortedNames) \cup BUILTIN_TYPES}

\* C18: the type-only import of the emitted function file lists each type
\* name the operations refer to (parameters, body and response type) once,
\* in sorted order, and nothing else: no primitive and no utility type, so
\* that string[], unknown, Record<string, unknown> and string[][] add no
\* entry; without a name to list there is no type-only import.
C18_Imports ==
  (pc = "emitted" /\ emitInput.kind = "imports") =>
    ImportedTokens(emitText) =
      SelectSeq(SortedNames, LAMBDA n : n \in ReferencedNames(emitInput.apis))

\* the same for the operations whose response type is a declared name, a
\* primitive, or an array of one of these
C18_ImportsOfNames ==
  (/\ pc = "emitted" /\ emitInput.kind = "imports"
   /\ \A i \in 1..Len(emitInput.apis) :
        ~Compound(emitInput.apis[i].responseTypeName)) =>
    ImportedTokens(emitText) =
      SelectSeq(SortedNames, LAMBDA n : n \in ReferencedNames(emitInput.apis))

\* imports emitted for two operations that refer to User twice, to Order
\* and to a parameters type
C18_ThreeNames ==
  /\ pc = "emitted" /\ emitInput.kind = "imports"
  /\ Len(emitInput.apis) = 2
  /\ emitInput.apis[1].responseTypeName = <<"User", "[", "]">>
  /\ emitInput.apis[1].bodyTypeName = <<"User">>
  /\ ImportedTokens(emitText) = SortedNames

\* the query parameters of the document that are to get a property
PropertyParams(input) ==
  SelectSeq(input.given,
            LAMBDA p : /\ p.in = "query" /\ p.name \notin {"", "-"}
                       /\ p.name \notin ExcludedWords(input.cfg))

\* the type a parameter of the document is to have: the union of its
\* enumerated values, else the primitive for its type tag
ExpectedParamType(p) ==
  IF Has(p, "enum")
  THEN Join([i \in 1..Len(p.enum) |-> <<"'", p.enum[i].string, "'">>],
            <<Blank, "|", Blank>>)
  ELSE IF ~Has(p, "type") THEN <<"unknown">>
  ELSE IF p.type \in {"integer", "number"} THEN <<"number">>
  ELSE <<p.type>>

\* the parameters type as the rules give it: declared exactly when the
\* operation has a query parameter, with one property for each parameter
\* that is to get one, of the type it is to have
ParamsTypeAsRuled(input, text) ==
  LET fields == parseFieldsFromContent(text)
      props == PropertyParams(input)
  IN IF \A i \in 1..Len(input.given) : input.given[i].in # "query"
     THEN Occurrences(text, <<"interface">>) = {}
     ELSE /\ Occurrences(text, <<"interface", Blank, "GetUsersParams">>) # {}
          /\ Len(fields) = Len(props)
          /\ \A i \in 1..Len(props) :
               /\ fields[i].name = props[i].name
               /\ fields[i].type = ExpectedParamType(props[i])

\* C19: for an operation of a Swagger 2.0 or OpenAPI 3.0 document that has
\* a query parameter, the type file declares a parameters type with exactly
\* one property per query parameter whose name is not empty, not "-" and
\* not excluded, each typed by the primitive for the parameter's type tag,
\* or by the union of its enumerated values if it has any.
C19_ParamsType ==
  (pc = "emitted" /\ emitInput.kind = "params") =>
    ParamsTypeAsRuled(emitInput, emitText)

\* the same for Swagger 2.0 documents, and for OpenAPI 3.0 documents
\* without an enumerated query parameter
C19_ParamsTypePlain ==
  (/\ pc = "emitted" /\ emitInput.kind = "params"
   /\ \/ emitInput.dialect = "swagger2"
      \/ \A i \in 1..Len(emitInput.given) : ~Has(emitInput.given[i], "enum")) =>
    ParamsTypeAsRuled(emitInput, emitText)

\* a parameters type emitted for a Swagger 2.0 operation with an enumerated
\* parameter and an excluded one
C19_EnumeratedSwagger2 ==
  /\ pc = "emitted" /\ emitInput.kind = "params"
  /\ emitInput.dialect = "swagger2"
  /\ Len(emitInput.given) = 2 /\ Len(PropertyParams(emitInput)) = 1
  /\ Has(PropertyParams(emitInput)[1], "enum")

(***************************************************************************)
(* Loading the document: the first statement of both commands              *)
(*                                                                         *)
(* config.input is a path or a URL; what is found there is a JSON text or  *)
(* nothing.  The document is the object of its paths, each with the first  *)
(* tag of its operation.  The report file changelog.md lies in the working *)
(* directory, outside config.output.                                       *)
(***************************************************************************)
\* config.input: a URL or a path, whether the file exists or the request
\* completes, and the body
Location(remote, found, body) == [remote |-> remote, found |-> found, body |-> body]

PathEntry(route, tag) == [key |-> route, value |-> tag]

\* the bodies: two documents, a text cut short, a text that is no JSON
DocumentBodies ==
  {JSONstringify(<<PathEntry(Chars_slashUsers, Chars_User)>>),
   JSONstringify(<<PathEntry(Chars_slashUsers, Chars_User),
                   PathEntry(Chars_slashOrders, Chars_Order)>>)}
BrokenBodies ==
  {<<Punct("{"), Str(Chars_slashUsers), Punct(":")>>, <<Str(Chars_User)>>, <<>>}

Locations ==
  {Location(r, TRUE, b) : r \in BOOLEAN, b \in DocumentBodies \cup BrokenBodies}
    \cup {Location(r, FALSE, <<>>) : r \in BOOLEAN}

Resolved(spec) == [ok |-> TRUE, value |-> spec, error |-> <<>>]
Rejected(message) == [ok |-> FALSE, value |-> <<>>, error |-> message]

\* a loadSwagger that takes a body it cannot parse for a document without paths
loadSwagger_lenient(in) ==
  IF ~in.found
  THEN Rejected(IF in.remote THEN <<"fetch failed">> ELSE <<"file does not exist">>)
  ELSE Resolved(JSONparse(in.body).value)

\* parser.ts loadSwagger, loadSwaggerFromFile, fetchSwagger: the document,
\* or the error thrown
loadSwagger(in) ==
  LET parsed == JSONparse(in.body) IN
  IF in.remote
  THEN IF ~in.found THEN Rejected(<<"fetch failed">>)
       ELSE IF parsed.ok THEN Resolved(parsed.value)
       ELSE Rejected(<<"parsing the JSON failed">>)
  ELSE IF ~in.found THEN Rejected(<<"file does not exist">>)
       ELSE IF parsed.ok THEN Resolved(parsed.value)
       ELSE Rejected(<<"SyntaxError">>)

\* [...set].sort() of a set of strings
RECURSIVE SortStrings(_)
SortStrings(set) ==
  IF set = {} THEN <<>>
  ELSE LET least == CHOOSE t \in set : \A u \in set \ {t} : CodeLess(t, u)
       IN <<least>> \o SortStrings(set \ {least})

\* tagMapping.ts extractAllTags: the first tags of the operations, sorted
extractAllTags(paths) ==
  SortStrings({paths[i].value : i \in {k \in 1..Len(paths) : paths[k].value # <<>>}})

\* the names the lines of a file declare after a keyword
NamesOn(file, keyword) ==
  {file.content[i][2] :
     i \in {k \in 1..Len(file.content) :
              Len(file.content[k]) >= 2 /\ file.content[k][1] = keyword}}

\* the members of a sequence that are in a set, each once, in order
RECURSIVE Distinct(_, _)
Distinct(list, seen) ==
  IF list = <<>> THEN <<>>
  ELSE IF Head(list) \in seen THEN Distinct(Tail(list), seen)
  ELSE <<Head(list)>> \o Distinct(Tail(list), seen \cup {Head(list)})

Change(name, kind) == [name |-> name, changeType |-> kind]

\* check.ts detectChanges for one module of the model: its entry of the
\* report, by the names the files of the module directory declare
detectModuleChanges(dir, name, list) ==
  LET present == name \in DOMAIN dir /\ dir[name].isDirectory
      typesTs == IF present THEN dir[name].types ELSE FileAbsent
      indexTs == IF present THEN dir[name].index ELSE FileAbsent
      newTypes == Distinct([i \in 1..Len(list) |-> list[i].responseTypeName], {})
      newApis == [i \in 1..Len(list) |-> list[i].functionName]
      oldTypes == NamesOn(typesTs, "export interface")
      oldApis == NamesOn(indexTs, "export const")
      added(new, old, exists) ==
        [i \in 1..Len(SelectSeq(new, LAMBDA n : ~exists \/ n \notin old)) |->
           Change(SelectSeq(new, LAMBDA n : ~exists \/ n \notin old)[i], "added")]
      removed(new, old) ==
        [i \in 1..Len(Listing(old \ Range(new))) |->
           Change(Listing(old \ Range(new))[i], "removed")]
  IN [moduleName |-> name,
      typeChanges |-> added(newTypes, oldTypes, typesTs.exists)
                        \o removed(newTypes, oldTypes),
      apiChanges |-> added(newApis, oldApis, indexTs.exists)
                       \o removed(newApis, oldApis)]

\* check.ts detectChanges: the entries of the modules that have a change
RECURSIVE detectChangesIn(_, _, _)
detectChangesIn(dir, apiMap, k) ==
  IF k > Len(apiMap) THEN <<>>
  ELSE LET entry == detectModuleChanges(dir, apiMap[k].key, apiMap[k].value)
       IN (IF Len(entry.typeChanges) > 0 \/ Len(entry.apiChanges) > 0
           THEN <<entry>> ELSE <<>>)
            \o detectChangesIn(dir, apiMap, k + 1)

ChangeLines(changes) ==
  [i \in 1..Len(changes) |->
     <<"-", IF changes[i].changeType = "added" THEN "+" ELSE "-", changes[i].name>>]

\* check.ts generateChangelog: the lines of the report, the time left out
RECURSIVE ModuleSections(_)
ModuleSections(modules) ==
  IF modules = <<>> THEN <<>>
  ELSE LET m == Head(modules) IN
       <<<<"##", m.moduleName>>, BlankLine>>
         \o (IF Len(m.typeChanges) > 0
             THEN <<<<"### type changes">>, BlankLine>>
                    \o ChangeLines(m.typeChanges) \o <<BlankLine>>
             ELSE <<>>)
         \o (IF Len(m.apiChanges) > 0
             THEN <<<<"### API changes">>, BlankLine>>
                    \o ChangeLines(m.apiChanges) \o <<BlankLine>>
             ELSE <<>>)
         \o ModuleSections(Tail(modules))
generateChangelog(modules) ==
  <<<<"# API change report">>, BlankLine, <<"generated at">>, BlankLine>>
    \o (IF modules = <<>> THEN <<<<"no change detected">>>>
        ELSE ModuleSections(modules))

Commands == {"update", "check"}

\* the output directory before the run, when it exists
LoadOutputDirs ==
  {<<>>,
   (TAG_MAPPING_FILE :> Plain(JSONstringify(<<Alias(Chars_User, Chars_internal)>>))),
   (TAG_MAPPING_FILE :> Plain(JSONstringify(<<Alias(Chars_User, Chars_User)>>)))
     @@ (toCamelCase(Chars_User) :> PriorUserDir)}

\* changelog.md before the run
PriorChangelogs == {FileAbsent, File(generateChangelog(<<>>))}

InitLoad ==
  /\ pc = "load"
  /\ command \in Commands
  /\ location \in Locations
  /\ options \in OptionChoices
  /\ configTable \in {<<>>, <<Alias(Chars_User, Chars_model)>>}
  /\ root \in BOOLEAN
  /\ outputDir \in IF root THEN LoadOutputDirs ELSE {<<>>}
  /\ changelog \in PriorChangelogs
  /\ error = <<>>
  /\ tags = <<>>
  /\ runMapping = <<>> /\ newTags = <<>> /\ model = <<>> /\ moduleIndex = 0
  /\ log = <<>>
  /\ atStart = [outputDir |-> outputDir, configTable |-> configTable,
                root |-> root, changelog |-> changelog]
  /\ runs = 1
  /\ NameIdle /\ PathIdle /\ CfgIdle /\ MergeIdle /\ ParseIdle /\ DiffIdle
  /\ CheckIdle /\ EmitIdle

\* runUpdate line 27, runCheck line 28: await loadSwagger(config.input)
LoadSwagger ==
  /\ pc = "load"
  /\ LET spec == loadSwagger(location) IN
     IF spec.ok
     THEN /\ tags' = extractAllTags(spec.value)
          /\ pc' = IF command = "update" THEN "loaded" ELSE "checking"
          /\ error' = error
     ELSE /\ error' = spec.error
          /\ pc' = "aborted"
          /\ tags' = tags
  /\ UNCHANGED <<command, location, root, changelog, options, configTable,
                 outputDir, runMapping, newTags, model, moduleIndex, log,
                 atStart, runs, restOfLoad>>

\* runUpdate line 30: ensureDir(config.output)
EnsureDir ==
  /\ pc = "loaded"
  /\ root' = TRUE
  /\ log' = log \o (IF root THEN <<>> ELSE <<Call("mkdir", "", "")>>)
  /\ pc' = "start"
  /\ UNCHANGED <<command, location, changelog, error, options, configTable, tags,
                 outputDir, runMapping, newTags, model, moduleIndex, atStart,
                 runs, restOfLoad>>

\* runCheck lines 30-46: loadTagMapping, parseSwagger, detectChanges, and
\* the report written to changelog.md
WriteChangelog ==
  /\ pc = "checking"
  /\ LET fileMapping == loadTagMappingFromFile(outputDir)
         tagMapping == loadTagMapping(AsTable(fileMapping.value), AsTable(configTable))
         parsed == ParseApis(tags, tagMapping, 1, 1, <<>>)
     IN /\ model' = parsed
        /\ changelog' = File(generateChangelog(detectChangesIn(outputDir, parsed, 1)))
        /\ log' = log \o (IF Len(configTable) > 0 THEN <<>> ELSE fileMapping.calls)
                      \o <<Call("write", "changelog.md", "")>>
  /\ pc' = "done"
  /\ UNCHANGED <<command, location, root, error, options, configTable, tags,
                 outputDir, runMapping, newTags, moduleIndex, atStart, runs,
                 restOfLoad>>

NextLoad ==
  \/ LoadSwagger \/ EnsureDir \/ WriteChangelog
  \/ UpdateTagMapping \/ InitOnlyReturn \/ Clean \/ Parse \/ WriteModule
  \/ Finish

SpecLoad == InitLoad /\ [][NextLoad]_vars

(***************************************************************************)
(* Claims on loading the document                                          *)
(***************************************************************************)
\* the file is missing, the request fails, or the body is no JSON text
Unloadable(in) == ~in.found \/ ~JSONparse(in.body).ok

FirstLabel(operation) ==
  IF Has(operation, "tags") /\ Len(operation.tags) > 0 THEN operation.tags[1]
  ELSE Chars_default

\* the filter as specified: a non-empty allow-list decides alone, else the
\* deny-list excludes its members
PassesFilter(label) ==
  LET allow == Range(config.includeTags)
      deny == Range(config.excludeTags)
  IN IF allow # {} THEN label \in allow ELSE label \notin deny

\* the operation of an entry of the document is among the parsed ones
Emitted(entry) ==
  \E api \in AllApis : api.path = entry.path /\ api.method = entry.method

\* the entries of the document the loop has visited
Visited == SubSeq(doc.operations, 1, opIndex)

\* C22: every operation the parser has visited is emitted exactly when its
\* first category label ("default" when it declares none) passes the
\* filter: with a non-empty allow-list the label is in it, whatever the
\* deny-list holds, otherwise the label is not in the deny-list; with both
\* lists empty every operation is emitted, and no operation is emitted twice.
C22_LabelFilter ==
  /\ \A i \in 1..Len(Visited) :
       Emitted(Visited[i]) <=> PassesFilter(FirstLabel(Visited[i].operation))
  /\ Cardinality(AllApis) =
       Len(SelectSeq(Visited, LAMBDA e : PassesFilter(FirstLabel(e.operation))))
  /\ (config.includeTags = <<>> /\ config.excludeTags = <<>>) =>
       Cardinality(AllApis) = opIndex

\* the parser returned with an operation emitted whose label is in both
\* lists, and an operation of a label in the deny-list only left out
C22_Witness ==
  /\ pc = "done"
  /\ config.includeTags # <<>> /\ config.excludeTags # <<>>
  /\ \E i \in 1..Len(doc.operations) :
       LET label == FirstLabel(doc.operations[i].operation) IN
       /\ label \in Range(config.includeTags) \cap Range(config.excludeTags)
       /\ Emitted(doc.operations[i])
  /\ \E i \in 1..Len(doc.operations) :
       LET label == FirstLabel(doc.operations[i].operation) IN
       /\ label \in Range(config.excludeTags) \ Range(config.includeTags)
       /\ ~Emitted(doc.operations[i])

\* the parser returned with an operation without a label emitted as default
C22_DefaultLabel ==
  /\ pc = "done"
  /\ Chars_default \in Range(config.includeTags)
  /\ \E i \in 1..Len(doc.operations) :
       /\ doc.operations[i].operation.tags = <<>>
       /\ Emitted(doc.operations[i])

(***************************************************************************)
(* Claims on the response of an allOf composition                          *)
(***************************************************************************)
\* the members of an allOf composition whose inline properties expose the field
Exposing(members, field) ==
  {i \in 1..Len(members) : HasProperty(members[i], field)}

\* the operations answering an allOf composition with a member exposing the
\* configured unwrap field
UnwrapsComposition(api) ==
  /\ Truthy(config.unwrapResponseField)
  /\ Has(api.responseSchema, "allOf")
  /\ Exposing(api.responseSchema.allOf, config.unwrapResponseField) # {}

\* the response type of the operation is the one the i-th member of the
\* composition gives when it stands alone
TakenFrom(api, i) ==
  api.responseTypeName =
    ResolveResponse(RefPrefix(doc), [allOf |-> <<api.responseSchema.allOf[i]>>],
                    config, <<>>, SchemaTable(doc)).name

\* C23: with an unwrap field configured, an operation whose success response
\* is an allOf composition has the type of that field in the first member
\* whose inline properties expose it; a later member exposing the field
\* too does not change the response type.
C23_FirstMember ==
  \A api \in AllApis :
    UnwrapsComposition(api) =>
      LET exposing == Exposing(api.responseSchema.allOf, config.unwrapResponseField)
      IN TakenFrom(api, CHOOSE i \in exposing : \A j \in exposing : i <= j)

\* the response type is the field's type in the last member exposing it
C23_LastMember ==
  \A api \in AllApis :
    UnwrapsComposition(api) =>
      LET exposing == Exposing(api.responseSchema.allOf, config.unwrapResponseField)
      IN TakenFrom(api, CHOOSE i \in exposing : \A j \in exposing : i >= j)

\* an operation answering a composition of two members that expose data
C23_TwoMembers ==
  \E api \in AllApis :
    /\ UnwrapsComposition(api)
    /\ Cardinality(Exposing(api.responseSchema.allOf, "data")) = 2
    /\ api.responseTypeName = Chars_Order

(***************************************************************************)
(* Claims on types with the same display name                              *)
(***************************************************************************)
\* the types of the model, module after module
ModelTypes == AllTypesOf(parsedTypes)

\* the places of the types with a display name, in the order of the model
PlacesNamed(name) == {i \in 1..Len(ModelTypes) : ModelTypes[i].name = name}

\* the display names that two definitions of the model share
SharedNames ==
  {ModelTypes[i].name :
     i \in {k \in 1..Len(ModelTypes) :
              \E j \in 1..Len(ModelTypes) :
                /\ ModelTypes[j].name = ModelTypes[k].name
                /\ ModelTypes[j].originalName # ModelTypes[k].originalName}}

\* the type file of the module declares the type as the definition has it
DeclaresAs(type) ==
  Cardinality(
    Occurrences(existingTypes.content,
                generateTypeDefinition(type.name, type.schema, defaultConfig))) = 1

\* the type file is the one an update wrote for the model as it is
WrittenForModel == pc = "parsed" /\ existingTypes.exists

\* the model has one type for every definition the operations reach
NotDeduplicated ==
  /\ Len(ModelTypes) = Len(UsedBy(moduleApis, <<>>))
  /\ \A i, j \in 1..Len(ModelTypes) :
       ModelTypes[i].originalName = ModelTypes[j].originalName => i = j

\* the type file declares, of the types with the name, the one at the place
\* and no other
DeclaresOnly(name, place) ==
  \A i \in PlacesNamed(name) : DeclaresAs(ModelTypes[i]) <=> i = place

\* C24: two definitions with the same display name are both in the model,
\* and the declarations emitted for the module hold, of the types with that
\* name, the one the model lists last.
C24_LastSeenWins ==
  /\ NotDeduplicated
  /\ WrittenForModel =>
       \A n \in SharedNames :
         DeclaresOnly(n, CHOOSE i \in PlacesNamed(n) : \A j \in PlacesNamed(n) : i >= j)

\* the same with the type the model lists first
C24_FirstSeenWins ==
  /\ NotDeduplicated
  /\ WrittenForModel =>
       \A n \in SharedNames :
         DeclaresOnly(n, CHOOSE i \in PlacesNamed(n) : \A j \in PlacesNamed(n) : i <= j)

\* an update wrote the type file of a model in which User and
\* user.UserResponse are both named User, the latter listed first
C24_Collision ==
  /\ WrittenForModel
  /\ "User" \in SharedNames
  /\ ModelTypes[1].originalName = "user.UserResponse"

(***************************************************************************)
(* updateTagMapping, applied again to the labels of the same document      *)
(***************************************************************************)
\* extractAllTags of the documents: the labels sorted, upper case first
AliasTagLists ==
  TagLists \cup {<<Chars_constructor>>, <<Chars_User, Chars_constructor>>}

InitAlias ==
  /\ pc = "start"
  /\ options = [clean |-> FALSE, initOnly |-> TRUE]
  /\ configTable \in ConfigTables
  /\ tags \in AliasTagLists
  /\ outputDir \in PriorOutputDirs
  /\ runMapping = <<>> /\ newTags = <<>> /\ model = <<>> /\ moduleIndex = 0
  /\ log = <<>>
  /\ atStart = [outputDir |-> outputDir, configTable |-> configTable,
                repeat |-> FALSE]
  /\ runs = 1
  /\ NameIdle /\ PathIdle /\ CfgIdle /\ MergeIdle /\ ParseIdle /\ DiffIdle
  /\ CheckIdle /\ EmitIdle /\ LoadIdle

\* the update is repeated with the same labels
RepeatUpdate ==
  /\ pc = "mapped"
  /\ runs < MaxRuns
  /\ runMapping' = <<>> /\ newTags' = <<>>
  /\ log' = <<>>
  /\ atStart' = [outputDir |-> outputDir, configTable |-> configTable,
                 repeat |-> TRUE]
  /\ runs' = runs + 1
  /\ pc' = "start"
  /\ UNCHANGED <<options, configTable, tags, outputDir, model, moduleIndex,
                 restOfRun>>

NextAlias == UpdateTagMapping \/ RepeatUpdate

SpecAlias == InitAlias /\ [][NextAlias]_vars

\* the table the call started from: the configured one, else the file's
PriorTable ==
  IF Len(atStart.configTable) > 0 THEN atStart.configTable
  ELSE DenotedTable(atStart.outputDir)

AliasOf(table, label) == AsTable(table)[label]

\* the rules of the update of the alias table, for the discovered labels
\* of a set
AliasRules(labels) ==
  pc = "mapped" =>
    /\ \A i \in 1..Len(PriorTable) :
         /\ ObjHas(runMapping, PriorTable[i].key)
         /\ AliasOf(runMapping, PriorTable[i].key) = PriorTable[i].value
    /\ \A t \in labels \cap Range(tags) :
         /\ ObjHas(runMapping, t)
         /\ ~ObjHas(PriorTable, t) =>
              AliasOf(runMapping, t) = t /\ t \in Range(newTags)
    /\ \A i \in 1..Len(newTags) :
         /\ newTags[i] \in Range(tags) /\ ~ObjHas(PriorTable, newTags[i])
         /\ \A j \in 1..Len(newTags) : newTags[j] = newTags[i] => j = i
    /\ \A i \in 1..Len(runMapping) :
         ObjHas(PriorTable, runMapping[i].key) \/ runMapping[i].key \in Range(tags)
    /\ (atStart.repeat /\ atStart.configTable = <<>>) => newTags = <<>>

\* C25: updateTagMapping only adds entries: the alias of every label that
\* had one is unchanged, every discovered label without an alias is mapped
\* to itself and returned in newTags, newTags holds those labels only,
\* afterwards every discovered label has an alias, and a second update with
\* the same labels and the table of the alias file returns no new label.
C25_OnlyAdds == AliasRules(Range(tags))

\* the same for the labels that are no member names of Object.prototype
C25_OnlyAddsOwnNames == AliasRules(Range(tags) \ ObjectPrototypeNames)

\* an update of the labels User and constructor on a table without them
C25_InheritedName ==
  /\ pc = "mapped"
  /\ tags = <<Chars_User, Chars_constructor>>
  /\ PriorTable = <<>>
  /\ newTags = <<Chars_User>>

\* a second update with the table the first one saved to the alias file
C25_Repeated ==
  /\ pc = "mapped" /\ atStart.repeat /\ atStart.configTable = <<>>
  /\ Len(runMapping) = 2 /\ newTags = <<>>

(***************************************************************************)
(* Claims on a sequence of regenerations of a function file                *)
(***************************************************************************)
PlacesOf(c, line) == {i \in 1..Len(c) : c[i] = line}

\* exactly one start marker, exactly one end marker, the start before the end
OneBlock(c) ==
  /\ Cardinality(PlacesOf(c, AUTO_GEN_START)) = 1
  /\ Cardinality(PlacesOf(c, AUTO_GEN_END)) = 1
  /\ FirstAt(c, AUTO_GEN_START) < FirstAt(c, AUTO_GEN_END)

\* the text before the start marker and the text after the end marker
BeforeBlock(c) == SubSeq(c, 1, FirstAt(c, AUTO_GEN_START) - 1)
AfterBlock(c) == SubSeq(c, FirstAt(c, AUTO_GEN_END) + 1, Len(c))

\* the step is an update run that cleans the output directory first
CleaningStep == lastRun' # lastRun /\ lastRun'.clean

FreshlyUpdated ==
  /\ Len(moduleApis) > 0
  /\ existingTypes.exists /\ existingApi.exists
  /\ \E style \in Styles :
       LET cfg == [defaultConfig EXCEPT !.requestStyle = style]
           collected == collectModuleTypes(moduleApis, parsedTypes, cfg)
       IN /\ existingTypes =
               File(generateTypesFileText(collected, moduleApis, cfg))
          /\ existingApi = File(ApiFileText(moduleApis, cfg))

\* C27: check run right after update, on the same document and with no
\* edit of the files in between, reports no change: the report has no
\* entry for the module
C27_RoundTrip ==
  (pc = "checked" /\ FreshlyUpdated) => report = <<>>

(***************************************************************************)
(* Claims on the names the files of a module use                           *)
(***************************************************************************)
\* the names a type file declares with export interface or export type
DeclaredIn(text) ==
  {text[i + 4] :
     i \in Occurrences(text, <<"export", Blank, "interface", Blank>>)
             \cup Occurrences(text, <<"export", Blank, "type", Blank>>)}

\* the display names of the definitions of the document
DisplayNames == {DiffType(d, CheckSchemas[d]).name : d \in DOMAIN CheckSchemas}

\* the display names a type file uses inside its declarations, as the type
\* of a field
ReferencedIn(text) ==
  {text[i] : i \in {k \in 3..Len(text) :
                      /\ text[k] \in DisplayNames
                      /\ text[k - 2] \notin {"interface", "type"}}}

\* the names the type-only import of a function file lists
ImportedIn(text) == Range(ImportedTokens(text))

\* C28: after an update, every type name the function file of the module
\* imports and every type name used inside a declaration of its type file
\* is declared in the type file of the module
C28_NamesDeclared ==
  (existingTypes.exists /\ existingApi.exists) =>
    ImportedIn(existingApi.content) \cup ReferencedIn(existingTypes.content)
      \subseteq DeclaredIn(existingTypes.content)

(***************************************************************************)
(* Claims on the call names of the operations of one group                 *)
(***************************************************************************)
\* C29: two operations of a group that differ in the verb or in the path
\* never get the same call name: no operation other than the one named
\* has its name
C29_NamesDistinct ==
  pc = "named" =>
    \A m \in Methods, ss \in SegSeqs :
      (m # method \/ RenderPath(ss) # cleanPath) =>
        generateFunctionName(m, RenderPath(ss)) # functionName

(***************************************************************************)
(* Claims on the arguments of the emitted request call                     *)
(***************************************************************************)
\* the body of an emitted function: the text from its arrow on
CallOf(text) == SubSeq(text, FirstPlace(text, "=>"), Len(text))

\* data is the body argument of the call: the argument after the path in
\* the chain style, a member of the request object in the object style
PassesData(text, style) ==
  IF style = "chain"
  THEN Occurrences(CallOf(text), <<",", Blank, "data">>) # {}
  ELSE Occurrences(CallOf(text), <<LineBreak, Blank, Blank, Blank, Blank, "data">>) # {}

\* params is the query argument of the call
PassesParams(text, style) ==
  IF style = "chain"
  THEN Occurrences(CallOf(text), <<",", Blank, "{", Blank, "params", Blank, "}">>) # {}
  ELSE Occurrences(CallOf(text), <<LineBreak, Blank, Blank, Blank, Blank, "params">>) # {}

====
